---- MODULE Spec2Model ----
(***************************************************************************)
(* Model of the metric extraction, netlist scan, derived estimates and     *)
(* regression evaluation of the FFT IP synthesis flow                      *)
(* (flow/yosys/gate_analysis.py, scripts/test_runner.py), of the reports   *)
(* they render, of scripts/generate_memory_analysis_report.py and of the   *)
(* APB helpers of tb/cocotb/test_fft_edge_cases.py.                        *)
(*                                                                         *)
(* Text artifacts are sequences of tokens.  A token is one of the fixed    *)
(* literals the regular expressions of the code look for (a statistics     *)
(* label such as "Number of cells:", a gate marker such as \$_AND_), one   *)
(* whitespace character, one decimal digit, an identifier, or one          *)
(* punctuation character.  The regular expressions are evaluated on the    *)
(* token sequence as Python's re module evaluates them on the characters.  *)
(***************************************************************************)
EXTENDS Integers, Sequences, FiniteSets, TLC

VARIABLES
    exists,             \* os.path.exists(<artifact>)
    content,            \* the artifact's text, a sequence of tokens
    stats,              \* return value of parse_synthesis_stats(<artifact>)
    analysis,           \* return value of analyze_gates(<artifact>)
    total_cells,        \* argument of calculate_die_size_estimates
    estimates,          \* return value of calculate_die_size_estimates
    reports,            \* TestRunner: reports_dir/<module>_synthesis_report.txt
    synthesis_results,  \* TestRunner.synthesis_results
    log,                \* TestRunner.print_status calls, in order
    step,               \* TestRunner.run_synthesis_tests: 0 before the call,
                        \* i while its i-th synthesis is next, 5 once returned,
                        \* 6 once generate_report has returned
    all_passed,         \* TestRunner.run_synthesis_tests: all_passed
    test_report,        \* TestRunner: reports_dir/python_test_report.md
    stats_files,        \* <synthesis_dir>/reports/<module_name>_stats.txt
    netlist,            \* ../synthesis/netlists/fft_top_synth_generic.v
    clock,              \* datetime.now(), in seconds
    gate_analysis_report,   \* flow/yosys/gate_analysis_report.md
    documents,          \* the reports rendered so far, in order
    yosys,              \* TestRunner: how the Yosys run of each synthesis ended
    stage,              \* TestRunner.run_all_tests: the stage it is at
    success,            \* return value of TestRunner.run_all_tests
    psel_i, penable_i, pwrite_i, paddr_i, pwdata_i,
                        \* cocotb: the APB inputs of the dut
    pready_o, prdata_o, \* cocotb: the APB outputs of the dut, as last sampled
    call,               \* cocotb: the helper the test awaits
    pc,                 \* cocotb: the await at which the helper is suspended
    addr, data,         \* apb_write, apb_read: addr and data
    timeout,            \* wait_for_completion: timeout
    timeout_count,      \* wait_for_completion: timeout_count
    fft_status,         \* wait_for_completion: status
    polls,              \* wait_for_completion: status polls completed
    outcome,            \* how the latest wait_for_completion ended
    calls               \* cocotb: helper calls made by the test

vars == <<exists, content, stats, analysis, total_cells, estimates,
          reports, synthesis_results, log, step, all_passed, test_report,
          stats_files, netlist, clock, gate_analysis_report, documents,
          yosys, stage, success,
          psel_i, penable_i, pwrite_i, paddr_i, pwdata_i, pready_o, prdata_o,
          call, pc, addr, data, timeout, timeout_count, fft_status, polls,
          outcome, calls>>

artifactVars == <<exists, content, stats, analysis>>
dieVars      == <<total_cells, estimates>>
runnerVars   == <<reports, synthesis_results, log, step, all_passed,
                  test_report, yosys>>
reportVars   == <<stats_files, netlist, clock, gate_analysis_report,
                  documents>>
suiteVars    == <<stage, success>>
busVars      == <<psel_i, penable_i, pwrite_i, paddr_i, pwdata_i, pready_o,
                  prdata_o, call, pc, addr, data, timeout, timeout_count,
                  fft_status, polls, outcome, calls>>

----------------------------------------------------------------------------
(* Python values *)

None      == [type |-> "NoneType"]
NotCalled == [type |-> "not_called"]
Dict(d)   == [type |-> "dict", items |-> d]
True      == [type |-> "bool", value |-> TRUE]
False     == [type |-> "bool", value |-> FALSE]

EmptyDict == [k \in {} |-> 0]

\* d[k] = v on a dict held as a function
DictSet(d, k, v) == [x \in DOMAIN d \cup {k} |-> IF x = k THEN v ELSE d[x]]

\* d.get(k, default)
DictGet(d, k, default) == IF k \in DOMAIN d THEN d[k] ELSE default

----------------------------------------------------------------------------
(* Tokens *)

\* the keys of stats, in the order parse_synthesis_stats fills them
Metric == {"cells", "wires", "wire_bits", "public_wires", "public_wire_bits",
           "ports", "port_bits", "memories", "memory_bits", "processes"}

\* Label with the patterns of wires and wire_bits exchanged
LabelSwapped ==
         [cells            |-> "Number of cells:",
          wires            |-> "Number of wire bits:",
          wire_bits        |-> "Number of wires:",
          public_wires     |-> "Number of public wires:",
          public_wire_bits |-> "Number of public wire bits:",
          ports            |-> "Number of ports:",
          port_bits        |-> "Number of port bits:",
          memories         |-> "Number of memories:",
          memory_bits      |-> "Number of memory bits:",
          processes        |-> "Number of processes:"]

\* the literal each re.search pattern of parse_synthesis_stats starts with
Label == [cells            |-> "Number of cells:",
          wires            |-> "Number of wires:",
          wire_bits        |-> "Number of wire bits:",
          public_wires     |-> "Number of public wires:",
          public_wire_bits |-> "Number of public wire bits:",
          ports            |-> "Number of ports:",
          port_bits        |-> "Number of port bits:",
          memories         |-> "Number of memories:",
          memory_bits      |-> "Number of memory bits:",
          processes        |-> "Number of processes:"]

GateType == {"AND", "OR", "XOR", "XNOR", "ANDNOT", "NAND", "NOR", "NOT", "MUX",
             "DFF", "DFFE", "LATCH", "ALDFFE", "MUL", "ADD", "SUB", "ROM", "RAM"}

\* the literal each pattern of cell_patterns starts with
cell_patterns == [AND    |-> "\\$_AND_",    OR     |-> "\\$_OR_",
                  XOR    |-> "\\$_XOR_",    XNOR   |-> "\\$_XNOR_",
                  ANDNOT |-> "\\$_ANDNOT_", NAND   |-> "\\$_NAND_",
                  NOR    |-> "\\$_NOR_",    NOT    |-> "\\$_NOT_",
                  MUX    |-> "\\$_MUX_",    DFF    |-> "\\$_DFF_",
                  DFFE   |-> "\\$_DFFE_",   LATCH  |-> "\\$_DLATCH_",
                  ALDFFE |-> "\\$_ALDFFE_", MUL    |-> "\\$_MUL_",
                  ADD    |-> "\\$_ADD_",    SUB    |-> "\\$_SUB_",
                  ROM    |-> "\\$_ROM_",    RAM    |-> "\\$_RAM_"]

\* the literal each pattern of gate_patterns starts with
gate_patterns == [AND    |-> "\\$_AND_",    OR     |-> "\\$_OR_",
                  XOR    |-> "\\$_XOR_",    XNOR   |-> "\\$_XNOR_",
                  ANDNOT |-> "\\$_ANDNOT_", NAND   |-> "\\$_NAND_",
                  NOR    |-> "\\$_NOR_",    NOT    |-> "\\$_NOT_",
                  MUX    |-> "\\$_MUX_",    DFF    |-> "\\$_DFF_",
                  DFFE   |-> "\\$_DFFE_",   LATCH  |-> "\\$_DLATCH_",
                  ALDFFE |-> "\\$_ALDFFE_", MUL    |-> "\\$_MUL_",
                  ADD    |-> "\\$_ADD_",    SUB    |-> "\\$_SUB_",
                  ROM    |-> "\\$_ROM_",    RAM    |-> "\\$_RAM_"]

LabelToken  == {Label[m] : m \in Metric}
MarkerToken == {gate_patterns[g] : g \in GateType}

\* \s : the whitespace characters of the texts
WS == {" ", "\n"}

\* \d : the decimal digits, with the value int() gives each
DigitValue == [d \in {"0", "1", "2", "3", "4", "5", "6", "7", "8", "9"} |->
                 CASE d = "0" -> 0 [] d = "1" -> 1 [] d = "2" -> 2 [] d = "3" -> 3
                   [] d = "4" -> 4 [] d = "5" -> 5 [] d = "6" -> 6 [] d = "7" -> 7
                   [] d = "8" -> 8 [] d = "9" -> 9]
Digit == DOMAIN DigitValue

\* identifiers of the texts (each starts with a letter)
Identifier == {"module", "input", "output", "wire", "fft_engine", "u1", "x"}

\* tokens that consist of \w characters only
WordTok == Identifier \cup Digit

Token == LabelToken \cup MarkerToken \cup WS \cup WordTok \cup {"(", ";"}

----------------------------------------------------------------------------
(* Regular expressions on token sequences *)

\* the first position at or after i whose token is not in S (Len + 1 if none):
\* where a greedy S+ or S* that starts at i stops
SkipWhile(text, i, S) ==
    CHOOSE j \in i..(Len(text) + 1) :
        /\ \A k \in i..(j - 1) : text[k] \in S
        /\ (j = Len(text) + 1 \/ text[j] \notin S)

\* <lit>\s+(\d+) matches at position i
FieldMatchAt(text, i, lit) ==
    /\ text[i] = lit
    /\ LET j == SkipWhile(text, i + 1, WS)
       IN  /\ j > i + 1
           /\ j <= Len(text)
           /\ text[j] \in Digit

\* the start positions of all matches of <lit>\s+(\d+)
FieldMatches(text, lit) == {i \in 1..Len(text) : FieldMatchAt(text, i, lit)}

MinOf(S) == CHOOSE i \in S : \A j \in S : i <= j

MaxOf(S) == CHOOSE i \in S : \A j \in S : i >= j

\* FieldGroup taking the rightmost match instead of the leftmost
FieldGroupLast(text, lit) ==
    LET i == MaxOf(FieldMatches(text, lit))
        j == SkipWhile(text, i + 1, WS)
        e == SkipWhile(text, j, Digit)
    IN  SubSeq(text, j, e - 1)

\* re.search(<lit>\s+(\d+), text).group(1): the digits of the leftmost match
FieldGroup(text, lit) ==
    LET i == MinOf(FieldMatches(text, lit))
        j == SkipWhile(text, i + 1, WS)
        e == SkipWhile(text, j, Digit)
    IN  SubSeq(text, j, e - 1)

\* int(<digits>)
RECURSIVE PyInt(_)
PyInt(ds) ==
    IF ds = <<>> THEN 0
    ELSE 10 * PyInt(SubSeq(ds, 1, Len(ds) - 1)) + DigitValue[ds[Len(ds)]]

----------------------------------------------------------------------------
(* parse_synthesis_stats *)

\* the metric keys set by the ten "if <x>_match:" blocks
MetricItems(text) ==
    [m \in {k \in Metric : FieldMatches(text, Label[k]) # {}} |->
        PyInt(FieldGroup(text, Label[m]))]

\* the loop over cell_patterns
CellBreakdown(text) ==
    [g \in {k \in GateType : FieldMatches(text, cell_patterns[k]) # {}} |->
        PyInt(FieldGroup(text, cell_patterns[g]))]

\* parse_synthesis_stats without the os.path.exists test: a missing file
\* reads as an empty one
parse_synthesis_stats_NoExistsTest(file_exists, text) ==
    Dict(DictSet(MetricItems(text), "cell_breakdown", CellBreakdown(text)))

parse_synthesis_stats(file_exists, text) ==
    IF ~file_exists THEN None
    ELSE Dict(DictSet(MetricItems(text), "cell_breakdown", CellBreakdown(text)))

----------------------------------------------------------------------------
(* analyze_gates *)

\* GateMatches without the \s+ that ends each pattern
GateMatches_AnyFollower(text, lit) == {i \in 1..Len(text) : text[i] = lit}

\* re.findall(<marker>\s+, text): the (non-overlapping) matches
GateMatches(text, lit) ==
    {i \in 1..Len(text) : /\ text[i] = lit
                          /\ i + 1 <= Len(text)
                          /\ text[i + 1] \in WS}

\* the loop over gate_patterns: a type is entered only "if matches:"
GateCounts(text) ==
    [g \in {k \in GateType : GateMatches(text, gate_patterns[k]) # {}} |->
        Cardinality(GateMatches(text, gate_patterns[g]))]

\* the \w characters a gate marker ends with (its leading \$ is not \w)
MarkerWord == [AND    |-> "_AND_",    OR     |-> "_OR_",
               XOR    |-> "_XOR_",    XNOR   |-> "_XNOR_",
               ANDNOT |-> "_ANDNOT_", NAND   |-> "_NAND_",
               NOR    |-> "_NOR_",    NOT    |-> "_NOT_",
               MUX    |-> "_MUX_",    DFF    |-> "_DFF_",
               DFFE   |-> "_DFFE_",   LATCH  |-> "_DLATCH_",
               ALDFFE |-> "_ALDFFE_", MUL    |-> "_MUL_",
               ADD    |-> "_ADD_",    SUB    |-> "_SUB_",
               ROM    |-> "_ROM_",    RAM    |-> "_RAM_"]

\* the \w characters of a token at which a word starts
WordText(t) ==
    IF t \in MarkerToken
    THEN MarkerWord[CHOOSE g \in GateType : gate_patterns[g] = t]
    ELSE t

\* a maximal run of \w characters starts in token i
StartsWord(text, i) ==
    \/ text[i] \in MarkerToken
    \/ /\ text[i] \in WordTok
       /\ (i = 1 \/ text[i - 1] \notin (WordTok \cup MarkerToken))

\* (\w+)\s+(\w+)\s*\( matches with group 1 starting in token i
ModuleMatchAt(text, i) ==
    /\ StartsWord(text, i)
    /\ LET e1 == SkipWhile(text, i + 1, WordTok)
           s2 == SkipWhile(text, e1, WS)
           e2 == SkipWhile(text, s2, WordTok)
           p  == SkipWhile(text, e2, WS)
       IN  /\ s2 > e1
           /\ e2 > s2
           /\ p <= Len(text)
           /\ text[p] = "("

\* the position of the "(" that ends the match starting in token i
ModuleMatchEnd(text, i) ==
    LET e1 == SkipWhile(text, i + 1, WordTok)
        s2 == SkipWhile(text, e1, WS)
        e2 == SkipWhile(text, s2, WordTok)
    IN  SkipWhile(text, e2, WS)

\* match.group(1): the characters of the tokens i .. j
RECURSIVE Concat(_, _, _)
Concat(text, i, j) ==
    IF i > j THEN ""
    ELSE IF i = j THEN WordText(text[i])
    ELSE WordText(text[i]) \o Concat(text, i + 1, j)

ModuleName(text, i) == Concat(text, i, SkipWhile(text, i + 1, WordTok) - 1)

\* the names the scan skips: Verilog keywords and the gate markers, and
\* module_name.startswith('\\$_') (of the strings above, the gate markers)
SkippedNames == {"module", "input", "output", "wire"} \cup MarkerToken

\* the loop over re.finditer(module_pattern, content), from position p on
RECURSIVE ModuleInstances(_, _, _)
ModuleInstances(text, p, acc) ==
    LET starts == {i \in p..Len(text) : ModuleMatchAt(text, i)}
    IN  IF starts = {} THEN acc
        ELSE LET i    == MinOf(starts)
                 name == ModuleName(text, i)
                 next == IF name \in SkippedNames THEN acc
                         ELSE DictSet(acc, name, DictGet(acc, name, 0) + 1)
             IN  ModuleInstances(text, ModuleMatchEnd(text, i) + 1, next)

\* sum(d.values())
RECURSIVE SumValues(_)
SumValues(d) ==
    IF DOMAIN d = {} THEN 0
    ELSE LET k == CHOOSE x \in DOMAIN d : TRUE
         IN  d[k] + SumValues([x \in DOMAIN d \ {k} |-> d[x]])

\* transistor_counts with the cost of NOT mistyped
transistor_counts_NotFour ==
                     [AND    |-> 6,   OR    |-> 6,  XOR   |-> 8,   XNOR |-> 8,
                      ANDNOT |-> 4,   NAND  |-> 4,  NOR   |-> 4,   NOT  |-> 4,
                      MUX    |-> 12,  DFF   |-> 20, DFFE  |-> 24,  LATCH |-> 12,
                      ALDFFE |-> 28,  MUL   |-> 200, ADD  |-> 50,  SUB  |-> 50,
                      ROM    |-> 100, RAM   |-> 150]

\* approximate transistors per gate
transistor_counts == [AND    |-> 6,   OR    |-> 6,  XOR   |-> 8,   XNOR |-> 8,
                      ANDNOT |-> 4,   NAND  |-> 4,  NOR   |-> 4,   NOT  |-> 2,
                      MUX    |-> 12,  DFF   |-> 20, DFFE  |-> 24,  LATCH |-> 12,
                      ALDFFE |-> 28,  MUL   |-> 200, ADD  |-> 50,  SUB  |-> 50,
                      ROM    |-> 100, RAM   |-> 150]

\* sum(gate_counts.get(gate, 0) * count for gate, count in transistor_counts.items())
TotalTransistors(gate_counts) ==
    SumValues([gate \in DOMAIN transistor_counts |->
                  DictGet(gate_counts, gate, 0) * transistor_counts[gate]])

analyze_gates(file_exists, text) ==
    IF ~file_exists THEN None
    ELSE LET gate_counts == GateCounts(text)
         IN  Dict([gate_counts           |-> gate_counts,
                   module_instances      |-> ModuleInstances(text, 1, EmptyDict),
                   total_primitive_gates |-> SumValues(gate_counts),
                   total_transistors     |-> TotalTransistors(gate_counts),
                   file                  |-> "netlist_file"])

----------------------------------------------------------------------------
(* The artifact and the two extraction calls *)

\* the file may hold at most this many tokens
MaxFileTokens == 8

\* what a line of the artifact starts with
Heads == LabelToken \cup MarkerToken \cup {"module", "wire", "fft_engine"}

\* what follows the head on its line
Tails == { <<"7">>,                    \* digits without whitespace
           <<" ", "0">>,
           <<" ", "7">>,
           <<" ", "x">>,               \* whitespace without digits
           <<"\n", "3">>,              \* the digits on the next line
           <<" ", "1", "2">>,
           <<" ", "u1", " ", "(">>,    \* an instantiation
           <<" ", "\\$_OR_", " ">> }   \* a marker inside the line

ArtifactInit ==
    /\ exists = FALSE
    /\ content = <<>>
    /\ stats = NotCalled
    /\ analysis = NotCalled

NoCallYet == stats = NotCalled /\ analysis = NotCalled

\* the synthesis tool creates the artifact
CreateArtifact ==
    /\ ~exists
    /\ NoCallYet
    /\ exists' = TRUE
    /\ UNCHANGED <<content, stats, analysis>>

\* the synthesis tool writes one more line
WriteLine ==
    /\ exists
    /\ NoCallYet
    /\ \E head \in Heads, tail \in Tails :
          /\ Len(content) + Len(tail) + 2 <= MaxFileTokens
          /\ content' = content \o <<head>> \o tail \o <<"\n">>
    /\ UNCHANGED <<exists, stats, analysis>>

ParseSynthesisStats ==
    /\ stats = NotCalled
    /\ stats' = parse_synthesis_stats(exists, content)
    /\ UNCHANGED <<exists, content, analysis>>

AnalyzeGates ==
    /\ analysis = NotCalled
    /\ analysis' = analyze_gates(exists, content)
    /\ UNCHANGED <<exists, content, stats>>

IdleDie == total_cells = 0 /\ estimates = NotCalled
\* TestRunner.__init__, before any report file is written
IdleRunner ==
    /\ reports = EmptyDict
    /\ synthesis_results = EmptyDict
    /\ log = <<>>
    /\ step = 0
    /\ all_passed = TRUE
    /\ test_report = [type |-> "missing"]
    /\ yosys = EmptyDict

\* no report rendered, no statistics file and no netlist on disk
IdleReport ==
    /\ stats_files = EmptyDict
    /\ netlist = [type |-> "missing"]
    /\ clock = 0
    /\ gate_analysis_report = [type |-> "missing"]
    /\ documents = <<>>

\* run_all_tests is not called
IdleSuite == stage = "main" /\ success = NotCalled

\* no cocotb test runs: the bus is idle and no helper is awaited
IdleBus ==
    /\ psel_i = 0 /\ penable_i = 0 /\ pwrite_i = 0
    /\ paddr_i = 0 /\ pwdata_i = 0
    /\ pready_o = 0 /\ prdata_o = 0
    /\ call = "none" /\ pc = "idle"
    /\ addr = 0 /\ data = 0
    /\ timeout = 0 /\ timeout_count = 0 /\ fft_status = 0 /\ polls = 0
    /\ outcome = "none"
    /\ calls = 0

Init ==
    ArtifactInit /\ IdleDie /\ IdleRunner /\ IdleReport /\ IdleSuite /\ IdleBus

Next ==
    \/ CreateArtifact /\ UNCHANGED <<dieVars, runnerVars, reportVars, suiteVars, busVars>>
    \/ WriteLine /\ UNCHANGED <<dieVars, runnerVars, reportVars, suiteVars, busVars>>
    \/ ParseSynthesisStats /\ UNCHANGED <<dieVars, runnerVars, reportVars, suiteVars, busVars>>
    \/ AnalyzeGates /\ UNCHANGED <<dieVars, runnerVars, reportVars, suiteVars, busVars>>

Spec == Init /\ [][Next]_vars

----------------------------------------------------------------------------
(* calculate_die_size_estimates.  A float is held as the exact fraction it *)
(* approximates, <<numerator, denominator>> in lowest terms.               *)

RECURSIVE GCD(_, _)
GCD(a, b) == IF b = 0 THEN a ELSE GCD(b, a % b)

Rat(n, d) == LET g == GCD(n, d) IN <<n \div g, d \div g>>

\* a + b
RatAdd(a, b) ==
    LET l == (a[2] \div GCD(a[2], b[2])) * b[2]
    IN  Rat(a[1] * (l \div a[2]) + b[1] * (l \div b[2]), l)

\* a * k, for an integer k
RatTimes(a, k) ==
    LET g == GCD(k, a[2])
    IN  Rat(a[1] * (k \div g), a[2] \div g)

\* gates/mm2
gate_density_45nm == 1200000

\* estimated memory area in mm2: 0.5
memory_area_45nm == Rat(1, 2)

\* estimates with total_area left at the logic area
calculate_die_size_estimates_NoMemory(cells) ==
    LET logic_area_45nm == Rat(cells, gate_density_45nm)
    IN  [asic_45nm |-> [gate_density |-> gate_density_45nm,
                        logic_area   |-> logic_area_45nm,
                        memory_area  |-> memory_area_45nm,
                        total_area   |-> logic_area_45nm],
         fpga      |-> [lut_usage    |-> Rat(cells * 3, 10),
                        bram_blocks  |-> 64,
                        dsp_blocks   |-> 50,
                        ff_usage     |-> Rat(cells * 2, 10)]]

calculate_die_size_estimates(cells) ==
    LET logic_area_45nm == Rat(cells, gate_density_45nm)
        total_area_45nm == RatAdd(logic_area_45nm, memory_area_45nm)
    IN  [asic_45nm |-> [gate_density |-> gate_density_45nm,
                        logic_area   |-> logic_area_45nm,
                        memory_area  |-> memory_area_45nm,
                        total_area   |-> total_area_45nm],
         fpga      |-> [lut_usage    |-> Rat(cells * 3, 10),
                        bram_blocks  |-> 64,
                        dsp_blocks   |-> 50,
                        ff_usage     |-> Rat(cells * 2, 10)]]

\* the cell totals tried: the small ones, and some around the gate density
MaxTotalCells == 60

CellTotals == (0..MaxTotalCells) \cup {600000, 1199999, 1200000, 1200001, 2400000}

DieInit ==
    /\ total_cells \in CellTotals
    /\ estimates = NotCalled

CalculateDieSizeEstimates ==
    /\ estimates = NotCalled
    /\ estimates' = Dict(calculate_die_size_estimates(total_cells))
    /\ UNCHANGED total_cells

InitDie ==
    ArtifactInit /\ DieInit /\ IdleRunner /\ IdleReport /\ IdleSuite /\ IdleBus

NextDie ==
    CalculateDieSizeEstimates
        /\ UNCHANGED <<artifactVars, runnerVars, reportVars, suiteVars, busVars>>

SpecDie == InitDie /\ [][NextDie]_vars

----------------------------------------------------------------------------
(* TestRunner: run_synthesis_tests, _analyze_synthesis_results and         *)
(* _evaluate_synthesis_results.  Yosys is a black box that ends with a     *)
(* return code and leaves a report file, or none, in reports_dir.          *)

test_modules == <<"memory_interface", "twiddle_rom", "fft_control">>

\* expected_results with the threshold of the whole design mistyped
expected_results_TotalTenThousand ==
    [memory_interface |-> [cells |-> 1000, improvement |-> "30-50x reduction"],
     twiddle_rom      |-> [cells |-> 2000, improvement |-> "20-50x increase"],
     total            |-> [cells |-> 10000, improvement |-> "5-7x reduction"]]

expected_results ==
    [memory_interface |-> [cells |-> 1000, improvement |-> "30-50x reduction"],
     twiddle_rom      |-> [cells |-> 2000, improvement |-> "20-50x increase"],
     total            |-> [cells |-> 15000, improvement |-> "5-7x reduction"]]

\* print_status showing a WARNING as an ERROR
print_status_WarningAsError(l, status, format, args) ==
    Append(l, [status |-> IF status = "WARNING" THEN "ERROR" ELSE status,
               format |-> format, args |-> args])

\* print_status(status, f"<format>") with the values of the f-string's fields
print_status(l, status, format, args) ==
    Append(l, [status |-> status, format |-> format, args |-> args])

\* _evaluate_synthesis_results with <= and >= where the code has < and >
evaluate_synthesis_results_NonStrict(l, module, cell_count) ==
    IF module = "memory_interface" THEN
        LET expected == expected_results["memory_interface"]["cells"]
        IN  IF cell_count <= expected
            THEN print_status(l, "SUCCESS",
                     "Memory interface optimization successful: {} < {}",
                     <<cell_count, expected>>)
            ELSE print_status(l, "WARNING",
                     "Memory interface cell count higher than expected: {} >= {}",
                     <<cell_count, expected>>)
    ELSE IF module = "twiddle_rom" THEN
        LET expected == expected_results["twiddle_rom"]["cells"]
        IN  IF cell_count >= expected
            THEN print_status(l, "SUCCESS",
                     "Twiddle ROM optimization successful: {} > {}",
                     <<cell_count, expected>>)
            ELSE print_status(l, "WARNING",
                     "Twiddle ROM cell count lower than expected: {} <= {}",
                     <<cell_count, expected>>)
    ELSE IF module = "comprehensive" THEN
        LET expected == expected_results["total"]["cells"]
        IN  IF cell_count <= expected
            THEN print_status(l, "SUCCESS",
                     "Overall optimization successful: {} < {}",
                     <<cell_count, expected>>)
            ELSE print_status(l, "WARNING",
                     "Overall cell count higher than expected: {} >= {}",
                     <<cell_count, expected>>)
    ELSE l

\* _evaluate_synthesis_results judging the whole design by "differs from"
evaluate_synthesis_results_NotEqual(l, module, cell_count) ==
    IF module = "memory_interface" THEN
        LET expected == expected_results["memory_interface"]["cells"]
        IN  IF cell_count < expected
            THEN print_status(l, "SUCCESS",
                     "Memory interface optimization successful: {} < {}",
                     <<cell_count, expected>>)
            ELSE print_status(l, "WARNING",
                     "Memory interface cell count higher than expected: {} >= {}",
                     <<cell_count, expected>>)
    ELSE IF module = "twiddle_rom" THEN
        LET expected == expected_results["twiddle_rom"]["cells"]
        IN  IF cell_count > expected
            THEN print_status(l, "SUCCESS",
                     "Twiddle ROM optimization successful: {} > {}",
                     <<cell_count, expected>>)
            ELSE print_status(l, "WARNING",
                     "Twiddle ROM cell count lower than expected: {} <= {}",
                     <<cell_count, expected>>)
    ELSE IF module = "comprehensive" THEN
        LET expected == expected_results["total"]["cells"]
        IN  IF cell_count # expected
            THEN print_status(l, "SUCCESS",
                     "Overall optimization successful: {} < {}",
                     <<cell_count, expected>>)
            ELSE print_status(l, "WARNING",
                     "Overall cell count higher than expected: {} >= {}",
                     <<cell_count, expected>>)
    ELSE l

\* _evaluate_synthesis_results(module, cell_count): the prints it adds
evaluate_synthesis_results(l, module, cell_count) ==
    IF module = "memory_interface" THEN
        LET expected == expected_results["memory_interface"]["cells"]
        IN  IF cell_count < expected
            THEN print_status(l, "SUCCESS",
                     "Memory interface optimization successful: {} < {}",
                     <<cell_count, expected>>)
            ELSE print_status(l, "WARNING",
                     "Memory interface cell count higher than expected: {} >= {}",
                     <<cell_count, expected>>)
    ELSE IF module = "twiddle_rom" THEN
        LET expected == expected_results["twiddle_rom"]["cells"]
        IN  IF cell_count > expected
            THEN print_status(l, "SUCCESS",
                     "Twiddle ROM optimization successful: {} > {}",
                     <<cell_count, expected>>)
            ELSE print_status(l, "WARNING",
                     "Twiddle ROM cell count lower than expected: {} <= {}",
                     <<cell_count, expected>>)
    ELSE IF module = "comprehensive" THEN
        LET expected == expected_results["total"]["cells"]
        IN  IF cell_count < expected
            THEN print_status(l, "SUCCESS",
                     "Overall optimization successful: {} < {}",
                     <<cell_count, expected>>)
            ELSE print_status(l, "WARNING",
                     "Overall cell count higher than expected: {} >= {}",
                     <<cell_count, expected>>)
    ELSE l

\* a report file of reports_dir
NoReport   == [type |-> "missing"]
Unreadable == [type |-> "unreadable"]
ReportFile(text) == [type |-> "file", text |-> text]

\* report_file of _analyze_synthesis_results(module)
ReportOf(files, module) == DictGet(files, module, NoReport)

\* _analyze_synthesis_results without its call of _evaluate_synthesis_results
analyze_synthesis_results_NoEvaluate(files, results, l, module) ==
    LET report == ReportOf(files, module)
    IN  IF report = NoReport THEN
            [synthesis_results |-> results,
             log |-> print_status(l, "WARNING",
                         "Synthesis report not found: {}", <<module>>)]
        ELSE IF report = Unreadable THEN
            [synthesis_results |-> results,
             log |-> print_status(l, "ERROR",
                         "Error analyzing {} results: {}", <<module>>)]
        ELSE IF FieldMatches(report.text, "Number of cells:") # {} THEN
            LET cell_count == PyInt(FieldGroup(report.text, "Number of cells:"))
            IN  [synthesis_results |->
                     DictSet(results, module, [cells |-> cell_count]),
                 log |-> print_status(l, "INFO", "{} cell count: {}",
                                      <<module, cell_count>>)]
        ELSE
            [synthesis_results |-> results,
             log |-> print_status(l, "WARNING",
                         "Could not extract cell count from {} report",
                         <<module>>)]

\* _analyze_synthesis_results taking a report without a cell count for one
\* of zero cells
analyze_synthesis_results_DefaultZero(files, results, l, module) ==
    LET report == ReportOf(files, module)
    IN  IF report = NoReport THEN
            [synthesis_results |-> results,
             log |-> print_status(l, "WARNING",
                         "Synthesis report not found: {}", <<module>>)]
        ELSE IF report = Unreadable THEN
            [synthesis_results |-> results,
             log |-> print_status(l, "ERROR",
                         "Error analyzing {} results: {}", <<module>>)]
        ELSE
            LET cell_count ==
                    IF FieldMatches(report.text, "Number of cells:") # {}
                    THEN PyInt(FieldGroup(report.text, "Number of cells:"))
                    ELSE 0
            IN  [synthesis_results |->
                     DictSet(results, module, [cells |-> cell_count]),
                 log |-> evaluate_synthesis_results(
                             print_status(l, "INFO", "{} cell count: {}",
                                          <<module, cell_count>>),
                             module, cell_count)]

\* _analyze_synthesis_results(module): the synthesis_results and the prints
\* it leaves
analyze_synthesis_results(files, results, l, module) ==
    LET report == ReportOf(files, module)
    IN  IF report = NoReport THEN
            [synthesis_results |-> results,
             log |-> print_status(l, "WARNING",
                         "Synthesis report not found: {}", <<module>>)]
        ELSE IF report = Unreadable THEN     \* read_text() raises
            [synthesis_results |-> results,
             log |-> print_status(l, "ERROR",
                         "Error analyzing {} results: {}", <<module>>)]
        ELSE IF FieldMatches(report.text, "Number of cells:") # {} THEN
            LET cell_count == PyInt(FieldGroup(report.text, "Number of cells:"))
            IN  [synthesis_results |->
                     DictSet(results, module, [cells |-> cell_count]),
                 log |-> evaluate_synthesis_results(
                             print_status(l, "INFO", "{} cell count: {}",
                                          <<module, cell_count>>),
                             module, cell_count)]
        ELSE
            [synthesis_results |-> results,
             log |-> print_status(l, "WARNING",
                         "Could not extract cell count from {} report",
                         <<module>>)]

\* the cell counts a report may state
SampleNumerals == { <<"0">>, <<"9", "0", "0">>, <<"9", "9", "9">>,
                    <<"1", "0", "0", "0">>, <<"1", "0", "0", "1">>,
                    <<"1", "9", "9", "9">>, <<"2", "0", "0", "0">>,
                    <<"2", "0", "0", "1">>, <<"1", "4", "9", "9", "9">>,
                    <<"1", "5", "0", "0", "0">>, <<"1", "5", "0", "0", "1">> }

\* the texts Yosys may leave in a report
ReportTexts ==
    {<<"Number of cells:", " ">> \o n \o <<"\n">> : n \in SampleNumerals}
    \cup { <<"x", "\n">>, <<"Number of cells:", " ", "x", "\n">> }

\* what reports_dir holds for a module after Yosys ran
ReportOutcomes == {NoReport, Unreadable} \cup {ReportFile(t) : t \in ReportTexts}

\* run_synthesis_tests up to its loop
StartSynthesisTests ==
    /\ step = 0
    /\ log' = print_status(log, "INFO", "Running synthesis tests...", <<>>)
    /\ all_passed' = TRUE
    /\ step' = 1
    /\ UNCHANGED <<reports, synthesis_results, test_report, yosys>>

\* one synthesis of run_synthesis_tests: _run_module_synthesis(module) or
\* _run_comprehensive_synthesis() and the print of its outcome
RunSynthesis(module, completed, failed, yosysFailed, raised) ==
    \/ \* subprocess.run raises: the except branch
       /\ yosys' = DictSet(yosys, module, [type |-> "raised"])
       /\ log' = print_status(
                     print_status(log, "ERROR", raised, <<>>),
                     "ERROR", failed, <<module>>)
       /\ all_passed' = FALSE
       /\ UNCHANGED <<reports, synthesis_results, test_report>>
    \/ \* result.returncode != 0
       /\ yosys' = DictSet(yosys, module, [type |-> "exit", returncode |-> 1])
       /\ log' = print_status(
                     print_status(log, "ERROR", yosysFailed, <<>>),
                     "ERROR", failed, <<module>>)
       /\ all_passed' = FALSE
       /\ UNCHANGED <<reports, synthesis_results, test_report>>
    \/ \* result.returncode == 0
       /\ yosys' = DictSet(yosys, module, [type |-> "exit", returncode |-> 0])
       /\ \E report \in ReportOutcomes :
          LET files == IF report = NoReport THEN reports
                       ELSE DictSet(reports, module, report)
              done  == analyze_synthesis_results(files, synthesis_results,
                                                 log, module)
          IN  /\ reports' = files
              /\ synthesis_results' = done.synthesis_results
              /\ log' = print_status(done.log, "SUCCESS", completed, <<module>>)
              /\ UNCHANGED <<all_passed, test_report>>

\* RunModuleSynthesis leaving the loop at the first failure
RunModuleSynthesis_ShortCircuit ==
    /\ step \in 1..Len(test_modules)
    /\ RunSynthesis(test_modules[step],
                    "{} synthesis completed", "{} synthesis failed",
                    "Yosys synthesis failed: {}", "Module synthesis failed: {}")
    /\ step' = IF all_passed' THEN step + 1 ELSE Len(test_modules) + 2

RunModuleSynthesis ==
    /\ step \in 1..Len(test_modules)
    /\ RunSynthesis(test_modules[step],
                    "{} synthesis completed", "{} synthesis failed",
                    "Yosys synthesis failed: {}", "Module synthesis failed: {}")
    /\ step' = step + 1

RunComprehensiveSynthesis ==
    /\ step = Len(test_modules) + 1
    /\ RunSynthesis("comprehensive",
                    "Comprehensive synthesis completed",
                    "Comprehensive synthesis failed",
                    "Comprehensive synthesis failed: {}",
                    "Comprehensive synthesis failed: {}")
    /\ step' = step + 1

\* the lines of the report after the test results
TestReportTail ==
    << <<"">>,
       <<"## Optimization Summary">>,
       <<"- **Memory Interface**: Synthesis attributes applied (ram_style = 'block')">>,
       <<"- **Memory Size**: Corrected from 65536x32-bit to 2048x32-bit (64K bits)">>,
       <<"- **Address Width**: Optimized from 16-bit to 11-bit">>,
       <<"- **Twiddle ROM**: Symmetry optimization implemented (4x size reduction)">>,
       <<"- **ROM Size**: Reduced from 2048x32-bit to 1024x16-bit (4K bits)">>,
       <<"">>,
       <<"## Recommendations">>,
       <<"1. Verify synthesis reports for memory macro usage">>,
       <<"2. Check timing constraints for optimized design">>,
       <<"3. Validate functionality with comprehensive simulation">>,
       <<"4. Compare gate count with previous baseline">>,
       <<"">>,
       <<"## Next Steps">>,
       <<"1. Run physical synthesis with vendor tools">>,
       <<"2. Implement memory generators for production">>,
       <<"3. Add advanced symmetry optimizations">>,
       <<"4. Optimize for specific target technology">> >>

\* the keys of synthesis_results in the order they were entered: the
\* order of the syntheses
SynthesisOrder == test_modules \o <<"comprehensive">>

\* generate_report(): the lines written to python_test_report.md, a line
\* being the sequence of the literal parts and the formatted values
generate_report(results, now) ==
    LET Entered(module) == module \in DOMAIN results
        items == SelectSeq(SynthesisOrder, Entered)
    IN  << <<"# FFT IP Memory Optimization Test Report">>,
           <<"">>,
           <<"## Test Summary">>,
           <<"- **Test Date**: ", ToString(now)>>,
           <<"- **Test Runner**: Python Test Runner">>,
           <<"- **Test Modules**: ", "memory_interface, twiddle_rom, fft_control">>,
           <<"">>,
           <<"## Expected Results">>,
           <<"- **Memory Interface**: < ",
             ToString(expected_results["memory_interface"]["cells"]),
             " cells (down from 67,754)">>,
           <<"- **Twiddle ROM**: > ",
             ToString(expected_results["twiddle_rom"]["cells"]),
             " cells (up from 85)">>,
           <<"- **Total Design**: < ",
             ToString(expected_results["total"]["cells"]),
             " cells (down from 74,217)">>,
           <<"">>,
           <<"## Test Results">> >>
        \o [i \in 1..Len(items) |->
               <<"- **", items[i], "**: ",
                 IF "cells" \in DOMAIN results[items[i]]
                 THEN ToString(results[items[i]]["cells"]) ELSE "N/A",
                 " cells">>]
        \o TestReportTail

\* generate_report(), which run_all_tests calls once run_synthesis_tests
\* has returned True
GenerateReport ==
    /\ step = Len(test_modules) + 2
    /\ all_passed
    /\ test_report' = ReportFile(generate_report(synthesis_results, clock))
    /\ log' = print_status(
                  print_status(log, "INFO", "Generating test report...", <<>>),
                  "SUCCESS", "Test report generated: {}",
                  <<"python_test_report.md">>)
    /\ step' = step + 1
    /\ UNCHANGED <<reports, synthesis_results, all_passed, yosys>>

InitRunner ==
    ArtifactInit /\ IdleDie /\ IdleRunner /\ IdleReport /\ IdleSuite /\ IdleBus

NextRunner ==
    \/ StartSynthesisTests /\ UNCHANGED <<artifactVars, dieVars, reportVars, suiteVars, busVars>>
    \/ RunModuleSynthesis /\ UNCHANGED <<artifactVars, dieVars, reportVars, suiteVars, busVars>>
    \/ RunComprehensiveSynthesis /\ UNCHANGED <<artifactVars, dieVars, reportVars, suiteVars, busVars>>
    \/ GenerateReport /\ UNCHANGED <<artifactVars, dieVars, reportVars, suiteVars, busVars>>

SpecRunner == InitRunner /\ [][NextRunner]_vars

----------------------------------------------------------------------------
(* TestRunner.run_all_tests.  The tools, the three _verify_ helpers and    *)
(* the simulator are black boxes that pass or fail; of the prints of a     *)
(* _verify_ helper the log keeps the first, not those about single files.  *)

required_tools == {"yosys", "iverilog", "vvp"}

\* run_all_tests up to its first stage
RunAllTests ==
    /\ stage = "main"
    /\ log' = print_status(
                  print_status(log, "INFO",
                      "Starting FFT IP Memory Optimization Test Suite", <<>>),
                  "INFO", "Project Root: {}", <<>>)
    /\ stage' = "check_dependencies"
    /\ UNCHANGED <<reports, synthesis_results, step, all_passed, test_report,
                   yosys, success>>

\* "if not self.check_dependencies(): return False"
CheckDependencies ==
    /\ stage = "check_dependencies"
    /\ \E missing_tools \in SUBSET required_tools :
          LET l == print_status(log, "INFO", "Checking dependencies...", <<>>)
          IN  IF missing_tools # {}
              THEN /\ log' = print_status(
                                 print_status(l, "ERROR", "Missing tools: {}",
                                              <<missing_tools>>),
                                 "INFO",
                                 "Please install missing tools and try again",
                                 <<>>)
                   /\ success' = False
                   /\ stage' = "returned"
              ELSE /\ log' = print_status(l, "SUCCESS",
                                 "All dependencies available", <<>>)
                   /\ stage' = "run_verification_tests"
                   /\ UNCHANGED success
    /\ UNCHANGED <<reports, synthesis_results, step, all_passed, test_report,
                   yosys>>

\* one verification of run_verification_tests
Verification(l, verified, verifying, name) ==
    print_status(print_status(l, "INFO", verifying, <<>>),
                 IF verified THEN "SUCCESS" ELSE "ERROR",
                 IF verified THEN "{} verification passed"
                             ELSE "{} verification failed",
                 <<name>>)

\* run_verification_tests(), which runs its three verifications whatever
\* their results
run_verification_tests(l, memory_size, attributes, quality) ==
    Verification(
        Verification(
            Verification(
                print_status(l, "INFO", "Running verification tests...", <<>>),
                memory_size, "Verifying memory size requirements...",
                "Memory size"),
            attributes, "Verifying synthesis attributes...",
            "Synthesis attributes"),
        quality, "Verifying code quality...", "Code quality")

\* "if not self.run_verification_tests(): ... return False"
RunVerificationTests ==
    /\ stage = "run_verification_tests"
    /\ \E memory_size, attributes, quality \in BOOLEAN :
          LET l == run_verification_tests(log, memory_size, attributes, quality)
          IN  IF memory_size /\ attributes /\ quality
              THEN /\ log' = l
                   /\ stage' = "run_simulation_tests"
                   /\ UNCHANGED success
              ELSE /\ log' = print_status(l, "ERROR",
                                 "Verification tests failed", <<>>)
                   /\ success' = False
                   /\ stage' = "returned"
    /\ UNCHANGED <<reports, synthesis_results, step, all_passed, test_report,
                   yosys>>

\* how the test of one testbench file may go
SimulationOutcomes ==
    {"missing", "passed", "compilation", "simulation", "raised"}

\* the body of the loop of run_simulation_tests for one testbench file
SimulationTest(l, test_file, test_name, out) ==
    IF out = "missing"
    THEN print_status(l, "WARNING", "Test file not found: {}", <<test_file>>)
    ELSE LET t == print_status(l, "INFO", "Testing {}...", <<test_name>>)
         IN  IF out = "passed"
             THEN print_status(t, "SUCCESS", "{} test passed", <<test_name>>)
             ELSE print_status(
                      IF out = "compilation"
                      THEN print_status(t, "ERROR", "Compilation failed: {}", <<>>)
                      ELSE IF out = "raised"
                      THEN print_status(t, "ERROR", "Simulation test failed: {}",
                                        <<>>)
                      ELSE t,
                      "ERROR", "{} test failed", <<test_name>>)

\* all_passed of run_simulation_tests, were it never set to False
SimulationPassed_Always(first, second) == TRUE

\* all_passed of run_simulation_tests after its loop
SimulationPassed(first, second) ==
    {first, second} \subseteq {"missing", "passed"}

\* "if not self.run_simulation_tests(): ... return False"
RunSimulationTests ==
    /\ stage = "run_simulation_tests"
    /\ \E first, second \in SimulationOutcomes :
          LET l == SimulationTest(
                       SimulationTest(
                           print_status(log, "INFO",
                                        "Running simulation tests...", <<>>),
                           "tb_memory_interface_opt.sv", "memory_interface_opt",
                           first),
                       "tb_twiddle_rom_symmetry.sv", "twiddle_rom_symmetry",
                       second)
          IN  IF SimulationPassed(first, second)
              THEN /\ log' = l
                   /\ stage' = "run_synthesis_tests"
                   /\ UNCHANGED success
              ELSE /\ log' = print_status(l, "ERROR",
                                 "Simulation tests failed", <<>>)
                   /\ success' = False
                   /\ stage' = "returned"
    /\ UNCHANGED <<reports, synthesis_results, step, all_passed, test_report,
                   yosys>>

\* "if not self.run_synthesis_tests(): ... return False", once
\* run_synthesis_tests has returned False
SynthesisTestsFailed ==
    /\ stage = "run_synthesis_tests"
    /\ step = Len(test_modules) + 2
    /\ ~all_passed
    /\ log' = print_status(log, "ERROR", "Synthesis tests failed", <<>>)
    /\ success' = False
    /\ stage' = "returned"
    /\ UNCHANGED <<reports, synthesis_results, step, all_passed, test_report,
                   yosys>>

\* run_all_tests after generate_report()
ReturnTrue ==
    /\ stage = "generate_report"
    /\ log' = print_status(
                  print_status(
                      print_status(log, "SUCCESS",
                          "FFT IP Memory Optimization Test Suite completed successfully!",
                          <<>>),
                      "INFO", "Total test duration: {} seconds", <<>>),
                  "INFO", "Check reports in: {}", <<>>)
    /\ success' = True
    /\ stage' = "returned"
    /\ UNCHANGED <<reports, synthesis_results, step, all_passed, test_report,
                   yosys>>

\* run_synthesis_tests as the fourth stage of run_all_tests
SynthesisStage ==
    /\ stage = "run_synthesis_tests"
    /\ StartSynthesisTests \/ RunModuleSynthesis \/ RunComprehensiveSynthesis
    /\ UNCHANGED <<stage, success>>

\* generate_report as the fifth stage
ReportStage ==
    /\ stage = "run_synthesis_tests"
    /\ GenerateReport
    /\ stage' = "generate_report"
    /\ UNCHANGED success

NextAll ==
    \/ RunAllTests /\ UNCHANGED <<artifactVars, dieVars, reportVars, busVars>>
    \/ CheckDependencies /\ UNCHANGED <<artifactVars, dieVars, reportVars, busVars>>
    \/ RunVerificationTests /\ UNCHANGED <<artifactVars, dieVars, reportVars, busVars>>
    \/ RunSimulationTests /\ UNCHANGED <<artifactVars, dieVars, reportVars, busVars>>
    \/ SynthesisStage /\ UNCHANGED <<artifactVars, dieVars, reportVars, busVars>>
    \/ SynthesisTestsFailed /\ UNCHANGED <<artifactVars, dieVars, reportVars, busVars>>
    \/ ReportStage /\ UNCHANGED <<artifactVars, dieVars, reportVars, busVars>>
    \/ ReturnTrue /\ UNCHANGED <<artifactVars, dieVars, reportVars, busVars>>

SpecAll == InitRunner /\ [][NextAll]_vars

----------------------------------------------------------------------------
(* The rendered reports.  A document is the sequence of its lines and a    *)
(* line the sequence of its pieces, all strings: the literal parts of the  *)
(* format and the formatted values.  The phrase "Total Gate Count" and     *)
(* each ":" of a line that holds it are pieces of their own; characters    *)
(* outside ASCII are left out of the literals.                             *)

\* "\n".join(lines).split("\n"), content.split('\n'): the lines of a text
RECURSIVE SplitLines(_)
SplitLines(text) ==
    LET nl == {i \in 1..Len(text) : text[i] = "\n"}
    IN  IF nl = {} THEN <<text>>
        ELSE LET i == MinOf(nl)
             IN  <<SubSeq(text, 1, i - 1)>>
                     \o SplitLines(SubSeq(text, i + 1, Len(text)))

\* s.strip()
RECURSIVE Strip(_)
Strip(s) ==
    IF s # <<>> /\ Head(s) \in WS THEN Strip(Tail(s))
    ELSE IF s # <<>> /\ s[Len(s)] \in WS THEN Strip(SubSeq(s, 1, Len(s) - 1))
    ELSE s

\* the characters of a statistics label before its colon
LabelStem(t) ==
    CASE t = "Number of cells:"            -> "Number of cells"
      [] t = "Number of wires:"            -> "Number of wires"
      [] t = "Number of wire bits:"        -> "Number of wire bits"
      [] t = "Number of public wires:"     -> "Number of public wires"
      [] t = "Number of public wire bits:" -> "Number of public wire bits"
      [] t = "Number of ports:"            -> "Number of ports"
      [] t = "Number of port bits:"        -> "Number of port bits"
      [] t = "Number of memories:"         -> "Number of memories"
      [] t = "Number of memory bits:"      -> "Number of memory bits"
      [] t = "Number of processes:"        -> "Number of processes"

\* the pieces of a line that hold a colon: ":" itself, and a statistics
\* label, which ends with one
Colons(line) ==
    {i \in 1..Len(line) : line[i] = ":" \/ line[i] \in LabelToken}

\* line.split(":")[1], of a line that holds a colon
SplitColon1(line) ==
    LET i    == MinOf(Colons(line))
        rest == {j \in Colons(line) : j > i}
    IN  IF rest = {} THEN SubSeq(line, i + 1, Len(line))
        ELSE LET j == MinOf(rest)
             IN  SubSeq(line, i + 1, j - 1)
                     \o (IF line[j] = ":" THEN <<>> ELSE <<LabelStem(line[j])>>)

\* the first line of lines that holds the label, split at its colons
FirstFieldOf(lines, label) ==
    LET at == {k \in 1..Len(lines) : \E i \in 1..Len(lines[k]) :
                                         lines[k][i] = label}
    IN  Strip(SplitColon1(lines[MinOf(at)]))

\* label in content
Holds(text, label) == \E i \in 1..Len(text) : text[i] = label

----------------------------------------------------------------------------
(* scripts/generate_memory_analysis_report.py *)

\* the try block of analyze_memory_usage_results for memory_interface:
\* lines is bound by the search for the cell count only, so the search for
\* the memory bits of a text without a cell count raises and the except
\* branch leaves the results as they are
MemoryInterfaceResults(file) ==
    IF file.type # "file" THEN EmptyDict
    ELSE LET text  == file.text
             lines == SplitLines(text)
             cells == IF Holds(text, "Number of cells:")
                      THEN DictSet(EmptyDict, "cell_count",
                                   FirstFieldOf(lines, "Number of cells:"))
                      ELSE EmptyDict
         IN  IF ~Holds(text, "Number of memory bits:") THEN cells
             ELSE IF ~Holds(text, "Number of cells:") THEN cells
             ELSE DictSet(cells, "memory_bits",
                          FirstFieldOf(lines, "Number of memory bits:"))

\* the try block for twiddle_rom
TwiddleRomResults(file) ==
    IF file.type # "file" THEN EmptyDict
    ELSE IF Holds(file.text, "Number of cells:")
    THEN DictSet(EmptyDict, "cell_count",
                 FirstFieldOf(SplitLines(file.text), "Number of cells:"))
    ELSE EmptyDict

\* "Total Gate Count:" in line, for a line of a rendered document
HoldsTotalGateCount(line) ==
    \E i \in 1..Len(line) - 1 :
        line[i] = "Total Gate Count" /\ line[i + 1] = ":"

\* the try block for gate_analysis_report.md: the first line that holds
\* "Total Gate Count:", split at its colons
OverallResults(file) ==
    IF file.type # "file" THEN EmptyDict
    ELSE LET lines == file.text
             at    == {k \in 1..Len(lines) : HoldsTotalGateCount(lines[k])}
         IN  IF at = {} THEN EmptyDict
             ELSE DictSet(EmptyDict, "total_gates",
                          Strip(SplitColon1(lines[MinOf(at)])))

analyze_memory_usage_results(files, gate_report) ==
    [memory_interface    |-> MemoryInterfaceResults(files["memory_interface"]),
     twiddle_rom         |-> TwiddleRomResults(files["twiddle_rom"]),
     overall_improvement |-> OverallResults(gate_report),
     test_status         |-> "unknown"]

\* Path(project_root).name
project_name == "fast-fourier-transform-ip"

\* datetime.now().strftime('%Y-%m-%d %H:%M:%S')
Timestamp(now) == ToString(now)

\* the lines written from "**Expected Overall Results:**" on
MemoryReportTail ==
    << <<"**Expected Overall Results:**">>,
       <<"- **Total Memory:** ~80KB (64KB + 16KB)">>,
       <<"- **Expected Total Cells:** ~150-700 cells">>,
       <<"- **Memory Efficiency:** Optimized for ASIC/FPGA implementation">>,
       <<"">>,
       <<"## Current Implementation Details">>,
       <<"">>,
       <<"### 1. Memory Interface">>,
       <<"- **Memory Size:** Reduced from 65536x32-bit to 2048x32-bit">>,
       <<"- **Synthesis Attributes:** Added ram_style = block">>,
       <<"- **Address Optimization:** Changed from 16-bit to 11-bit addressing">>,
       <<"- **Timing Improvements:** Added registered outputs and pipelined ready signal">>,
       <<"">>,
       <<"### 2. Twiddle ROM">>,
       <<"- **ROM Size:** Reduced from 16K bits to 4K bits using symmetry">>,
       <<"- **Synthesis Attributes:** Added rom_style = block">>,
       <<"- **Symmetry Implementation:** Using trigonometric identities">>,
       <<"- **Data Width:** Changed from 32-bit to 16-bit storage">>,
       <<"">>,
       <<"## Test Results">>,
       <<"">>,
       <<"**Memory Interface Tests:** PASSED">>,
       <<"**Twiddle ROM Tests:** PASSED">>,
       <<"**Synthesis Verification:** PASSED">>,
       <<"**All Core Modules:** Synthesize successfully">>,
       <<"">>,
       <<"## Recommendations">>,
       <<"">>,
       <<"### For Production Use:">>,
       <<"1. **Memory Interface:** Use external memory controller for large arrays">>,
       <<"2. **Synthesis Flow:** Implement incremental synthesis for faster iterations">>,
       <<"3. **Timing Analysis:** Add synthesis constraints for optimization">>,
       <<"4. **Power Analysis:** Perform power analysis with realistic workloads">>,
       <<"">>,
       <<"### Next Steps:">>,
       <<"1. **Verify on Ubuntu:** Run complete test suite to confirm improvements">>,
       <<"2. **Synthesis Regression:** Create automated synthesis checking">>,
       <<"3. **Performance Validation:** Test with real FFT workloads">>,
       <<"4. **Documentation Update:** Update design specs with new metrics">>,
       <<"">>,
       <<"## Conclusion">>,
       <<"">>,
       <<"The FFT IP demonstrates efficient memory usage:">>,
       <<"- **Core Logic:** All modules synthesize successfully">>,
       <<"- **Memory Efficiency:** Optimized memory sizing for FFT operations">>,
       <<"- **Production Ready:** Ready for ASIC/FPGA implementation">>,
       <<"- **Performance:** Maintained functionality with efficient area usage">>,
       <<"">>,
       <<"The IP is ready for production use with the current memory implementation.">> >>

\* generate_memory_analysis_report with the section of memory_interface
\* written for every results, also empty ones
generate_memory_analysis_report_AlwaysResults(files, gate_report, now) ==
    LET results == analyze_memory_usage_results(files, gate_report)
        mi      == results.memory_interface
        tr      == results.twiddle_rom
        oi      == results.overall_improvement
    IN  << <<"# FFT IP Memory Usage Analysis Report">>,
           <<"========================================">>,
           <<"">>,
           <<"**Generated:** ", Timestamp(now)>>,
           <<"**Project:** ", project_name>>,
           <<"">>,
           <<"## Memory Usage Summary">>,
           <<"">>,
           <<"### Memory Interface Analysis">>,
           <<"">> >>
        \o (<<<<"**Current Results:**">>>>
                 \o (IF "cell_count" \in DOMAIN mi
                     THEN <<<<"- **Cell Count:** ">> \o mi["cell_count"]>>
                     ELSE <<>>)
                 \o (IF "memory_bits" \in DOMAIN mi
                     THEN <<<<"- **Memory Bits:** ">> \o mi["memory_bits"]>>
                     ELSE <<>>))
        \o << <<"">>,
              <<"**Current Memory Requirements:**">>,
              <<"- **Memory Size:** 2048x32-bit (64KB)">>,
              <<"- **Address Bits:** 11-bit">>,
              <<"- **Expected Cell Count:** ~100-500 cells">>,
              <<"">>,
              <<"### Twiddle ROM Analysis">>,
              <<"">> >>
        \o (IF DOMAIN tr # {}
            THEN <<<<"**Current Results:**">>>>
                 \o (IF "cell_count" \in DOMAIN tr
                     THEN <<<<"- **Cell Count:** ">> \o tr["cell_count"]>>
                     ELSE <<>>)
            ELSE <<<<"**Status:** No synthesis data available">>>>)
        \o << <<"">>,
              <<"**Current Memory Requirements:**">>,
              <<"- **ROM Size:** 1024x16-bit (16KB)">>,
              <<"- **Address Bits:** 10-bit">>,
              <<"- **Expected Cell Count:** ~50-200 cells">>,
              <<"">>,
              <<"### Overall Design Analysis">>,
              <<"">> >>
        \o (IF DOMAIN oi # {}
            THEN IF "total_gates" \in DOMAIN oi
                 THEN << <<"**", "Total Gate Count", ":", "** ">>
                             \o oi["total_gates"],
                         <<"">> >>
                 ELSE <<>>
            ELSE << <<"**Status:** Overall gate count not available">>,
                    <<"">> >>)
        \o MemoryReportTail

\* generate_memory_analysis_report(project_root, output_dir): the lines
\* written to memory_analysis_report.md
generate_memory_analysis_report(files, gate_report, now) ==
    LET results == analyze_memory_usage_results(files, gate_report)
        mi      == results.memory_interface
        tr      == results.twiddle_rom
        oi      == results.overall_improvement
    IN  << <<"# FFT IP Memory Usage Analysis Report">>,
           <<"========================================">>,
           <<"">>,
           <<"**Generated:** ", Timestamp(now)>>,
           <<"**Project:** ", project_name>>,
           <<"">>,
           <<"## Memory Usage Summary">>,
           <<"">>,
           <<"### Memory Interface Analysis">>,
           <<"">> >>
        \o (IF DOMAIN mi # {}
            THEN <<<<"**Current Results:**">>>>
                 \o (IF "cell_count" \in DOMAIN mi
                     THEN <<<<"- **Cell Count:** ">> \o mi["cell_count"]>>
                     ELSE <<>>)
                 \o (IF "memory_bits" \in DOMAIN mi
                     THEN <<<<"- **Memory Bits:** ">> \o mi["memory_bits"]>>
                     ELSE <<>>)
            ELSE <<<<"**Status:** No synthesis data available">>>>)
        \o << <<"">>,
              <<"**Current Memory Requirements:**">>,
              <<"- **Memory Size:** 2048x32-bit (64KB)">>,
              <<"- **Address Bits:** 11-bit">>,
              <<"- **Expected Cell Count:** ~100-500 cells">>,
              <<"">>,
              <<"### Twiddle ROM Analysis">>,
              <<"">> >>
        \o (IF DOMAIN tr # {}
            THEN <<<<"**Current Results:**">>>>
                 \o (IF "cell_count" \in DOMAIN tr
                     THEN <<<<"- **Cell Count:** ">> \o tr["cell_count"]>>
                     ELSE <<>>)
            ELSE <<<<"**Status:** No synthesis data available">>>>)
        \o << <<"">>,
              <<"**Current Memory Requirements:**">>,
              <<"- **ROM Size:** 1024x16-bit (16KB)">>,
              <<"- **Address Bits:** 10-bit">>,
              <<"- **Expected Cell Count:** ~50-200 cells">>,
              <<"">>,
              <<"### Overall Design Analysis">>,
              <<"">> >>
        \o (IF DOMAIN oi # {}
            THEN IF "total_gates" \in DOMAIN oi
                 THEN << <<"**", "Total Gate Count", ":", "** ">>
                             \o oi["total_gates"],
                         <<"">> >>
                 ELSE <<>>
            ELSE << <<"**Status:** Overall gate count not available">>,
                    <<"">> >>)
        \o MemoryReportTail

----------------------------------------------------------------------------
(* flow/yosys/gate_analysis.py: generate_comprehensive_gate_report *)

\* modules: module_name and display_name, in the order of the dict
modules == << <<"fft_engine", "FFT Engine">>,
              <<"fft_control", "FFT Control">>,
              <<"rescale_unit", "Rescale Unit">>,
              <<"scale_factor_tracker", "Scale Factor Tracker">>,
              <<"twiddle_rom", "Twiddle ROM">>,
              <<"memory_interface", "Memory Interface">> >>

\* if stats: neither None nor an empty dict
Truthy(v) == v # None /\ DOMAIN v.items # {}

\* parse_synthesis_stats(stats_file)
StatsOf(files, module_name) ==
    LET file == files[module_name]
    IN  parse_synthesis_stats(file.type = "file",
                              IF file.type = "file" THEN file.text ELSE <<>>)

\* module_stats: display_name and stats of the modules whose stats are
\* truthy, in the order they are entered
ModuleStats(files) ==
    LET all == [i \in 1..Len(modules) |->
                   <<modules[i][2], StatsOf(files, modules[i][1])>>]
        Found(p) == Truthy(p[2])
    IN  SelectSeq(all, Found)

\* total_cells after the loop: the sum of stats.get('cells', 0)
RECURSIVE SumCells(_)
SumCells(module_stats) ==
    IF module_stats = <<>> THEN 0
    ELSE DictGet(Head(module_stats)[2].items, "cells", 0)
             + SumCells(Tail(module_stats))

\* Shown with 0 as the default, as in the sum of the cells
Shown_ZeroDefault(items, key) ==
    IF key \in DOMAIN items THEN ToString(items[key]) ELSE "0"

\* f"{stats.get(key, '-')}"
Shown(items, key) ==
    IF key \in DOMAIN items THEN ToString(items[key]) ELSE "-"

\* the key components determined by the display name
Components(display_name) ==
    CASE display_name = "FFT Engine" -> "Butterfly operations, pipeline"
      [] display_name = "FFT Control" -> "FSM, control logic"
      [] display_name = "Rescale Unit" -> "Overflow detection, scaling logic"
      [] display_name = "Scale Factor Tracker" -> "Scale factor tracking logic"
      [] display_name = "Twiddle ROM" -> "2048-entry ROM, address logic"
      [] display_name = "Memory Interface" -> "APB interface (reduced memory)"
      [] OTHER -> "Core logic"

\* a row of the Gate Count Summary table
SummaryRow(display_name, cells, wire_bits, public_wires) ==
    <<"| **", display_name, "** | ", cells, " | ", wire_bits, " | ",
      public_wires, " | ", Components(display_name), " |">>

\* the display names of modules.values() that are not in module_stats
NotFound(module_stats) ==
    LET found == {module_stats[i][1] : i \in 1..Len(module_stats)}
        Missing(m) == m[2] \notin found
    IN  SelectSeq(modules, Missing)

\* the rows of the Gate Count Summary table without those of the modules
\* that were not found
SummaryRows_FoundOnly(module_stats) ==
    [i \in 1..Len(module_stats) |->
        SummaryRow(module_stats[i][1],
                   Shown(module_stats[i][2].items, "cells"),
                   Shown(module_stats[i][2].items, "wire_bits"),
                   Shown(module_stats[i][2].items, "public_wires"))]

\* the rows of the Gate Count Summary table: the modules found, then the
\* modules that were not found
SummaryRows(module_stats) ==
    [i \in 1..Len(module_stats) |->
        SummaryRow(module_stats[i][1],
                   Shown(module_stats[i][2].items, "cells"),
                   Shown(module_stats[i][2].items, "wire_bits"),
                   Shown(module_stats[i][2].items, "public_wires"))]
    \o [i \in 1..Len(NotFound(module_stats)) |->
           SummaryRow(NotFound(module_stats)[i][2], "-", "-", "-")]

\* the n low decimal digits of k
RECURSIVE ZeroPad(_, _)
ZeroPad(k, n) ==
    IF n = 0 THEN "" ELSE ZeroPad(k \div 10, n - 1) \o ToString(k % 10)

RECURSIVE Pow10(_)
Pow10(n) == IF n = 0 THEN 1 ELSE 10 * Pow10(n - 1)

\* f"{k:,}"
RECURSIVE Commas(_)
Commas(k) ==
    IF k < 1000 THEN ToString(k)
    ELSE Commas(k \div 1000) \o "," \o ZeroPad(k % 1000, 3)

\* f"{x:.nf}" of the fraction x: the nearest multiple of 10^-n.  (A float
\* that is no tie is formatted as the fraction it approximates; the sums
\* of cells rendered here are below the first tie of a format.)
Fixed(x, n) ==
    LET g   == GCD(Pow10(n), x[2])
        num == x[1] * (Pow10(n) \div g)
        den == x[2] \div g
        q   == num \div den
        r   == 2 * (num % den)
        k   == IF r > den \/ (r = den /\ q % 2 = 1) THEN q + 1 ELSE q
    IN  IF n = 0 THEN ToString(k)
        ELSE ToString(k \div Pow10(n)) \o "." \o ZeroPad(k % Pow10(n), n)

\* the head of the report, with the time of its generation
ReportHead(now) ==
    << <<"# Fast Fourier Transform IP Gate-Level Analysis Report">>,
       <<"=================================================================">>,
       <<"">>,
       <<"Generated: ", Timestamp(now)>>,
       <<"">> >>

GateCountSummary(module_stats) ==
    << <<"## Gate Count Summary">>,
       <<"">>,
       <<"| Module | Cells | Wire Bits | Public Wires | Key Components |">>,
       <<"|--------|-------|-----------|--------------|----------------|">> >>
    \o SummaryRows(module_stats)
    \o << <<"">> >>

EstimatedTotals(sum_cells) ==
    LET estimated_full == IF sum_cells > 0 THEN sum_cells * 2 ELSE 15000
    IN  << <<"### **Estimated ", "Total Gate Count", ":", "**">>,
           <<"- **Reported Modules**: ~", ToString(sum_cells), " cells">>,
           <<"- **Estimated Full Design**: ~", ToString(estimated_full),
             " cells">>,
           <<"- **Memory Interface (full)**: Would add ~50,000-100,000 cells">>,
           <<"">> >>

DieSizeEstimates(die_estimates) ==
    LET asic == die_estimates.asic_45nm
        fpga == die_estimates.fpga
    IN  << <<"## Die Size Estimates">>,
           <<"">>,
           <<"### **ASIC Implementation (45nm process):**">>,
           <<"- **Gate Density**: ~", Commas(asic.gate_density), " gates/mm2">>,
           <<"- **Logic Area**: ~", Fixed(asic.logic_area, 4),
             " mm2 (core logic only)">>,
           <<"- **Memory Area**: ~", Fixed(asic.memory_area, 1),
             " mm2 (including 256KB memory)">>,
           <<"- **Total Estimated Area**: ~", Fixed(asic.total_area, 4),
             " mm2">>,
           <<"">>,
           <<"### **FPGA Implementation:**">>,
           <<"- **LUT Usage**: ~", Fixed(fpga.lut_usage, 0), " LUTs">>,
           <<"- **BRAM Usage**: ~", ToString(fpga.bram_blocks),
             " BRAM blocks (for memory)">>,
           <<"- **DSP Usage**: ~", ToString(fpga.dsp_blocks),
             " DSP blocks (for arithmetic)">>,
           <<"- **FF Usage**: ~", Fixed(fpga.ff_usage, 0), " flip-flops">>,
           <<"">> >>

\* what the cells of a module are said to be for
Purpose(display_name) ==
    CASE display_name = "FFT Engine" -> "butterfly operations and pipeline"
      [] display_name = "FFT Control" -> "FSM and control logic"
      [] display_name = "Rescale Unit" -> "complex arithmetic operations"
      [] display_name = "Scale Factor Tracker" -> "scale factor tracking"
      [] display_name = "Twiddle ROM" -> "2048-entry ROM (efficient)"
      [] display_name = "Memory Interface" -> "APB interface (simplified)"

\* the Area Efficiency lines: one for each module found with cells > 0
AreaEfficiency(module_stats) ==
    LET HasCells(p) == DictGet(p[2].items, "cells", 0) > 0
        with == SelectSeq(module_stats, HasCells)
    IN  [i \in 1..Len(with) |->
            <<"- **", with[i][1], "**: ", ToString(with[i][2].items["cells"]),
              " cells for ", Purpose(with[i][1])>>]

PerformanceAnalysis(module_stats) ==
    << <<"## Performance Analysis">>,
       <<"">>,
       <<"### **Area Efficiency**">> >>
    \o AreaEfficiency(module_stats)
    \o << <<"- **Overall**: Good area efficiency for FFT implementation">>,
          <<"">> >>

\* the lines from "Design Trade-offs" to the head of the status table
ReportMiddle ==
    << <<"### **Design Trade-offs**">>,
       <<"- **Performance**: High-throughput FFT computation with pipeline">>,
       <<"- **Area**: Optimized for ASIC implementation">>,
       <<"- **Power**: Pipeline design for power efficiency">>,
       <<"- **Flexibility**: Configurable FFT size and scaling">>,
       <<"- **Memory**: Efficient memory usage with twiddle factor ROM">>,
       <<"">>,
       <<"## Technology Considerations">>,
       <<"">>,
       <<"### **Standard Cell Mapping**">>,
       <<"FFT IP maps to standard cell library:">>,
       <<"- **Combinational**: AND, OR, XOR, MUX, NAND, NOR, NOT gates">>,
       <<"- **Sequential**: DFF, DFFE flip-flops">>,
       <<"- **Arithmetic**: Custom arithmetic units for butterfly operations">>,
       <<"- **Memory**: ROM macros for twiddle factors">>,
       <<"- **Compatibility**: Compatible with most CMOS processes">>,
       <<"">>,
       <<"### **Power Considerations**">>,
       <<"- **Static Power**: Moderate (sequential elements)">>,
       <<"- **Dynamic Power**: High (arithmetic operations, memory access)">>,
       <<"- **Clock Power**: Multiple clock domains">>,
       <<"- **Memory Power**: ROM/RAM access patterns">>,
       <<"">>,
       <<"### **FFT-Specific Considerations**">>,
       <<"- **Butterfly Operations**: Complex arithmetic dominates area">>,
       <<"- **Pipeline Efficiency**: Multi-stage pipeline for throughput">>,
       <<"- **Memory Bandwidth**: Twiddle factor and data memory access">>,
       <<"- **Scaling Logic**: Overflow prevention and scaling control">>,
       <<"- **Control Logic**: FSM for FFT stage management">>,
       <<"">>,
       <<"## Synthesis Quality Metrics">>,
       <<"">>,
       <<"### **Module Synthesis Status**">>,
       <<"| Module | Status | Synthesis Time | Quality |">>,
       <<"|--------|--------|----------------|---------|">> >>

\* a row of the Module Synthesis Status table
StatusRow(display_name, status, time, quality) ==
    <<"| ", display_name, " | ", status, " | ", time, " | ", quality, " |">>

\* the row of a module of the Module Synthesis Status table: the branch
\* of a module in module_stats and the else branch append the same rows
ModuleStatus(display_name, found) ==
    IF found
    THEN IF display_name \in {"FFT Engine", "FFT Control", "Rescale Unit",
                              "Scale Factor Tracker"}
         THEN StatusRow(display_name, "PASS", "~30s", "Excellent")
         ELSE IF display_name = "Twiddle ROM"
         THEN StatusRow(display_name, "PASS", "~60s", "Good")
         ELSE StatusRow(display_name, "PARTIAL", "~30s", "Simplified")
    ELSE IF display_name \in {"FFT Engine", "FFT Control", "Rescale Unit",
                              "Scale Factor Tracker"}
         THEN StatusRow(display_name, "PASS", "~30s", "Excellent")
         ELSE IF display_name = "Twiddle ROM"
         THEN StatusRow(display_name, "PASS", "~60s", "Good")
         ELSE StatusRow(display_name, "PARTIAL", "~30s", "Simplified")

SynthesisStatus(module_stats) ==
    LET found == {module_stats[i][1] : i \in 1..Len(module_stats)}
    IN  [i \in 1..Len(modules) |->
            ModuleStatus(modules[i][2], modules[i][2] \in found)]

\* the lines from the end of the status table on
ReportTail ==
    << <<"">>,
       <<"### **Quality Indicators**">>,
       <<"- ** All core modules synthesize successfully**">>,
       <<"- ** No timing violations detected**">>,
       <<"- ** Clean logic synthesis**">>,
       <<"- ** Memory interface needs optimization**">>,
       <<"- ** Ready for production with improvements**">>,
       <<"">>,
       <<"## Recommendations for Production">>,
       <<"">>,
       <<"### **1. Memory Interface Optimization**">>,
       <<"- **Option A**: Use external memory controller for large memory arrays">>,
       <<"- **Option B**: Implement memory interface with configurable memory size">>,
       <<"- **Option C**: Use memory generator for synthesis (e.g., Xilinx BRAM, Intel M20K)">>,
       <<"">>,
       <<"### **2. Synthesis Flow Improvements**">>,
       <<"- Implement incremental synthesis for faster iterations">>,
       <<"- Add synthesis constraints for timing optimization">>,
       <<"- Use vendor-specific synthesis tools for production">>,
       <<"- Add power analysis with actual switching activity">>,
       <<"">>,
       <<"### **3. Verification Strategy**">>,
       <<"- Create synthesis regression tests">>,
       <<"- Implement automated synthesis checking">>,
       <<"- Add synthesis timing analysis">>,
       <<"- Perform power analysis with realistic workloads">>,
       <<"">>,
       <<"## Conclusion">>,
       <<"">>,
       <<"The FFT IP demonstrates excellent synthesis quality with:">>,
       <<"- **Solid core logic**: All main modules synthesize successfully">>,
       <<"- **Good area efficiency**: Reasonable gate counts for functionality">>,
       <<"- **Production ready**: Core FFT logic is ready for ASIC/FPGA implementation">>,
       <<"- **Memory optimization needed**: Large memory array requires optimization">>,
       <<"">>,
       <<"**Next Steps**:">>,
       <<"1. Implement optimized memory interface">>,
       <<"2. Add synthesis constraints and timing analysis">>,
       <<"3. Create automated synthesis regression tests">>,
       <<"4. Optimize for target FPGA/ASIC technology">>,
       <<"5. Perform power analysis with realistic workloads">>,
       <<"">>,
       <<"The IP is well-structured and synthesis-friendly, with the main issue being the large memory array in the memory interface. The core FFT logic is solid and ready for production use.">> >>

\* generate_comprehensive_gate_report with the status table moved before
\* the die size estimates
generate_comprehensive_gate_report_StatusFirst(files, now) ==
    LET module_stats  == ModuleStats(files)
        sum_cells     == SumCells(module_stats)
        die_estimates == calculate_die_size_estimates(sum_cells)
    IN  ReportHead(now)
            \o GateCountSummary(module_stats)
            \o EstimatedTotals(sum_cells)
            \o ReportMiddle
            \o SynthesisStatus(module_stats)
            \o DieSizeEstimates(die_estimates)
            \o PerformanceAnalysis(module_stats)
            \o ReportTail

\* generate_comprehensive_gate_report(synthesis_dir, output_file): the
\* lines of the report it returns
generate_comprehensive_gate_report(files, now) ==
    LET module_stats  == ModuleStats(files)
        sum_cells     == SumCells(module_stats)
        die_estimates == calculate_die_size_estimates(sum_cells)
    IN  ReportHead(now)
            \o GateCountSummary(module_stats)
            \o EstimatedTotals(sum_cells)
            \o DieSizeEstimates(die_estimates)
            \o PerformanceAnalysis(module_stats)
            \o ReportMiddle
            \o SynthesisStatus(module_stats)
            \o ReportTail

----------------------------------------------------------------------------
(* flow/yosys/gate_analysis.py: generate_gate_report *)

\* the names entered in module_instances, in the order they are entered,
\* each with whether it starts with "_" (as the \w characters of a gate
\* marker do, and no identifier or digit does)
RECURSIVE InstanceOrder(_, _, _)
InstanceOrder(text, p, acc) ==
    LET starts == {i \in p..Len(text) : ModuleMatchAt(text, i)}
    IN  IF starts = {} THEN acc
        ELSE LET i    == MinOf(starts)
                 name == ModuleName(text, i)
                 seen == \E k \in 1..Len(acc) : acc[k].name = name
                 next == IF name \in SkippedNames \/ seen THEN acc
                         ELSE Append(acc, [name       |-> name,
                                           underscore |-> text[i] \in MarkerToken])
             IN  InstanceOrder(text, ModuleMatchEnd(text, i) + 1, next)

\* sorted(gate_counts): the gate types in the order of their names
SortedGateTypes ==
    <<"ADD", "ALDFFE", "AND", "ANDNOT", "DFF", "DFFE", "LATCH", "MUL", "MUX",
      "NAND", "NOR", "NOT", "OR", "RAM", "ROM", "SUB", "XNOR", "XOR">>

\* breakdown_transistors with the cost of LATCH mistyped
breakdown_transistors_LatchTwenty ==
    [AND    |-> 6,   OR    |-> 6,  XOR   |-> 8,   XNOR |-> 8,
     ANDNOT |-> 4,   NAND  |-> 4,  NOR   |-> 4,   NOT  |-> 2,
     MUX    |-> 12,  DFF   |-> 20, DFFE  |-> 24,  LATCH |-> 20,
     ALDFFE |-> 28,  MUL   |-> 200, ADD  |-> 50,  SUB  |-> 50,
     ROM    |-> 100, RAM   |-> 150]

\* the transistors per gate of the Gate Breakdown table
breakdown_transistors ==
    [AND    |-> 6,   OR    |-> 6,  XOR   |-> 8,   XNOR |-> 8,
     ANDNOT |-> 4,   NAND  |-> 4,  NOR   |-> 4,   NOT  |-> 2,
     MUX    |-> 12,  DFF   |-> 20, DFFE  |-> 24,  LATCH |-> 12,
     ALDFFE |-> 28,  MUL   |-> 200, ADD  |-> 50,  SUB  |-> 50,
     ROM    |-> 100, RAM   |-> 150]

\* "Hierarchical" if a module instance is left once the names that start
\* with "_" are dropped, "Flat" otherwise
DesignStyle(order) ==
    IF \E k \in 1..Len(order) : ~order[k].underscore
    THEN "Hierarchical" ELSE "Flat"

\* the summary table: a row for each implementation analyzed
LegacySummary(impl_name, found, result, order) ==
    << <<"## Gate Count Summary">>,
       <<"">>,
       <<"| Implementation | Primitive Gates | Transistors | Design Style |">>,
       <<"|----------------|-----------------|-------------|--------------|">> >>
    \o (IF found
        THEN << <<"| ", impl_name, " | ",
                  ToString(result.total_primitive_gates), " | ",
                  ToString(result.total_transistors), " | ",
                  DesignStyle(order), " |">> >>
        ELSE <<>>)
    \o << <<"">> >>

\* the Gate Breakdown of an implementation
GateBreakdown(gate_counts) ==
    LET Counted(g) == g \in DOMAIN gate_counts
        types == SelectSeq(SortedGateTypes, Counted)
    IN  << <<"### Gate Breakdown">>, <<"">> >>
        \o (IF DOMAIN gate_counts # {}
            THEN << <<"| Gate Type | Count | Transistors |">>,
                    <<"|-----------|-------|-------------|">> >>
                 \o [i \in 1..Len(types) |->
                        <<"| ", types[i], " | ", ToString(gate_counts[types[i]]),
                          " | ",
                          ToString(gate_counts[types[i]]
                                    * DictGet(breakdown_transistors, types[i], 6)),
                          " |">>]
            ELSE << <<"No primitive gates found.">> >>)
        \o << <<"">> >>

\* the Module Instances table, present if module_instances is not empty
ModuleInstancesTable(module_instances, order) ==
    IF DOMAIN module_instances = {} THEN <<>>
    ELSE << <<"### Module Instances">>,
            <<"">>,
            <<"| Module | Instances |">>,
            <<"|--------|-----------|">> >>
         \o [i \in 1..Len(order) |->
                <<"| ", order[i].name, " | ",
                  ToString(module_instances[order[i].name]), " |">>]
         \o << <<"">> >>

TotalStatistics(result, order) ==
    << <<"### Total Statistics">>,
       <<"">>,
       <<"- **Primitive Gates**: ", ToString(result.total_primitive_gates)>>,
       <<"- **Estimated Transistors**: ", ToString(result.total_transistors)>>,
       <<"- **Design Style**: ", DesignStyle(order)>>,
       <<"">> >>

LogicComplexity(gate_counts) ==
    LET dff_count == DictGet(gate_counts, "DFF", 0)
                         + DictGet(gate_counts, "DFFE", 0)
        combinational_gates ==
            SumValues([g \in DOMAIN gate_counts
                              \ {"DFF", "DFFE", "LATCH", "ALDFFE"} |->
                          gate_counts[g]])
        arithmetic_units == DictGet(gate_counts, "MUL", 0)
                                + DictGet(gate_counts, "ADD", 0)
                                + DictGet(gate_counts, "SUB", 0)
        memory_units == DictGet(gate_counts, "ROM", 0)
                            + DictGet(gate_counts, "RAM", 0)
    IN  << <<"### Logic Complexity Analysis">>,
           <<"">>,
           <<"- **Sequential Elements**: ", ToString(dff_count), " flip-flops">>,
           <<"- **Combinational Logic**: ", ToString(combinational_gates),
             " gates">>,
           <<"- **Arithmetic Units**: ", ToString(arithmetic_units),
             " (MUL/ADD/SUB)">>,
           <<"- **Memory Units**: ", ToString(memory_units), " (ROM/RAM)">>,
           <<"- **Sequential/Combinational Ratio**: ",
             Fixed(Rat(dff_count, combinational_gates + 1), 2)>>,
           <<"- **FFT Algorithm**: Radix-2 Decimation-in-Time (DIT)">>,
           <<"- **Pipeline Stages**: Multi-stage pipeline for high throughput">>,
           <<"- **Butterfly Operations**: Complex arithmetic for FFT computation">>,
           <<"- **Twiddle Factor ROM**: Pre-computed twiddle factors">>,
           <<"- **Memory Interface**: APB slave interface for data transfer">>,
           <<"- **Scaling Control**: Dynamic scaling for overflow prevention">>,
           <<"">> >>

LegacyPerformance(found, result) ==
    << <<"## Performance Analysis">>,
       <<"">>,
       <<"### Area Efficiency">>,
       <<"">> >>
    \o (IF found
        THEN << <<"- **Gate Count**: ", ToString(result.total_primitive_gates),
                  " primitive gates">>,
                <<"- **Transistor Count**: ",
                  ToString(result.total_transistors), " transistors">>,
                <<"- **Area Estimate**: ~",
                  Fixed(Rat(result.total_transistors, 1000), 1),
                  "K transistors">> >>
        ELSE <<>>)

\* the lines from the end of the Area Efficiency section on
LegacyTail ==
    << <<"">>,
       <<"### Design Trade-offs">>,
       <<"">>,
       <<"- **Performance**: High-throughput FFT computation">>,
       <<"- **Area**: Optimized for ASIC implementation">>,
       <<"- **Power**: Pipeline design for power efficiency">>,
       <<"- **Flexibility**: Configurable FFT size and scaling">>,
       <<"- **Memory**: Efficient memory usage with twiddle factor ROM">>,
       <<"">>,
       <<"## Technology Considerations">>,
       <<"">>,
       <<"### Standard Cell Mapping">>,
       <<"">>,
       <<"FFT IP maps to standard cell library:">>,
       <<"- Combinational gates (AND, OR, XOR, MUX)">>,
       <<"- Sequential elements (DFF, DFFE)">>,
       <<"- Arithmetic units (MUL, ADD, SUB)">>,
       <<"- Memory macros (ROM, RAM)">>,
       <<"- Compatible with most CMOS processes">>,
       <<"">>,
       <<"### Power Considerations">>,
       <<"">>,
       <<"- **Static Power**: Moderate (sequential elements)">>,
       <<"- **Dynamic Power**: High (arithmetic operations)">>,
       <<"- **Clock Power**: Multiple clock domains">>,
       <<"- **Memory Power**: ROM/RAM access patterns">>,
       <<"">>,
       <<"### FFT-Specific Considerations">>,
       <<"">>,
       <<"- **Butterfly Operations**: Complex arithmetic dominates area">>,
       <<"- **Pipeline Efficiency**: Multi-stage pipeline for throughput">>,
       <<"- **Memory Bandwidth**: Twiddle factor and data memory access">>,
       <<"- **Scaling Logic**: Overflow prevention and scaling control">>,
       <<"- **Control Logic**: FSM for FFT stage management">>,
       <<"">> >>

\* generate_gate_report with the time of generation also under the Total
\* Statistics
generate_gate_report_StampedStatistics(netlist_file, now) ==
    LET found  == netlist_file.type = "file"
        text   == IF found THEN netlist_file.text ELSE <<>>
        result == analyze_gates(TRUE, text).items
        order  == InstanceOrder(text, 1, <<>>)
    IN  ReportHead(now)
            \o LegacySummary("FFT Top", found, result, order)
            \o (IF found
                THEN << <<"## ", "FFT Top", " Implementation">>, <<"">> >>
                     \o GateBreakdown(result.gate_counts)
                     \o ModuleInstancesTable(result.module_instances, order)
                     \o TotalStatistics(result, order)
                     \o LogicComplexity(result.gate_counts)
                ELSE <<>>)
            \o LegacyPerformance(found, result)
            \o << <<"Generated: ", Timestamp(now)>> >>
            \o LegacyTail

\* generate_gate_report(): the lines of the report it returns, for the one
\* netlist of netlists, 'FFT Top'
generate_gate_report(netlist_file, now) ==
    LET found  == netlist_file.type = "file"
        text   == IF found THEN netlist_file.text ELSE <<>>
        result == analyze_gates(TRUE, text).items
        order  == InstanceOrder(text, 1, <<>>)
    IN  ReportHead(now)
            \o LegacySummary("FFT Top", found, result, order)
            \o (IF found
                THEN << <<"## ", "FFT Top", " Implementation">>, <<"">> >>
                     \o GateBreakdown(result.gate_counts)
                     \o ModuleInstancesTable(result.module_instances, order)
                     \o TotalStatistics(result, order)
                     \o LogicComplexity(result.gate_counts)
                ELSE <<>>)
            \o LegacyPerformance(found, result)
            \o LegacyTail

----------------------------------------------------------------------------
(* The reports of one project: its statistics files and its netlist are    *)
(* on disk before the first report is rendered and stay as they are.       *)

\* a line of a statistics file
StatsLine(label, digits) == <<label, " ">> \o digits \o <<"\n">>

\* what <synthesis_dir>/reports may hold for each module
StatsOutcomes ==
    [fft_engine |->
        {NoReport,
         ReportFile(StatsLine("Number of cells:", <<"1", "2">>)
                        \o StatsLine("Number of wire bits:", <<"7">>)
                        \o StatsLine("Number of public wires:", <<"3">>))},
     fft_control |->
        {NoReport, ReportFile(StatsLine("Number of cells:", <<"0">>))},
     rescale_unit |->
        {NoReport, ReportFile(<<"x", "\n">>)},
     scale_factor_tracker |->
        {NoReport,
         ReportFile(StatsLine("Number of wire bits:", <<"9">>)
                        \o StatsLine("Number of cells:", <<"5">>))},
     twiddle_rom |->
        {NoReport,
         ReportFile(<<"x", "\n">>),
         ReportFile(StatsLine("Number of cells:", <<"3", "0">>))},
     memory_interface |->
        {NoReport,
         ReportFile(StatsLine("Number of cells:", <<"7">>)),
         ReportFile(StatsLine("Number of memory bits:", <<"6", "4">>)),
         ReportFile(StatsLine("Number of wires:", <<"2">>)
                        \o StatsLine("Number of cells:", <<"7">>)
                        \o StatsLine("Number of memory bits:", <<"6", "4">>))}]

\* what ../synthesis/netlists may hold: no netlist, a flat one, one with
\* a module instance, one without gates and instances
NetlistOutcomes ==
    {NoReport,
     ReportFile(<<"\\$_AND_", " ", "u1", " ", "(", "\n",
                  "\\$_DFF_", " ", "x", " ", "(", "\n",
                  "\\$_AND_", " ", "x", " ", "(", "\n">>),
     ReportFile(<<"fft_engine", " ", "u1", " ", "(", "\n",
                  "\\$_NOT_", " ", "x", " ", "(", "\n",
                  "fft_engine", " ", "x", " ", "(", "\n">>),
     ReportFile(<<"module", " ", "x", " ", "(", ";", "\n">>)}

ReportInit ==
    /\ \E a \in StatsOutcomes.fft_engine, b \in StatsOutcomes.fft_control,
          c \in StatsOutcomes.rescale_unit,
          d \in StatsOutcomes.scale_factor_tracker,
          e \in StatsOutcomes.twiddle_rom,
          f \in StatsOutcomes.memory_interface :
          stats_files = [fft_engine |-> a, fft_control |-> b,
                         rescale_unit |-> c, scale_factor_tracker |-> d,
                         twiddle_rom |-> e, memory_interface |-> f]
    /\ netlist \in NetlistOutcomes
    /\ clock = 0
    /\ gate_analysis_report = NoReport
    /\ documents = <<>>

\* at most this many reports are rendered
MaxDocuments == 2

\* a renderer is called and reads the clock, which has not gone back since
\* the call before
Render(renderer, now, text) ==
    /\ Len(documents) < MaxDocuments
    /\ now \in {clock, clock + 1}
    /\ clock' = now
    /\ documents' = Append(documents, [renderer |-> renderer, text |-> text])

\* generate_memory_analysis_report.py: main()
GenerateMemoryAnalysisReport ==
    /\ \E now \in {clock, clock + 1} :
          Render("generate_memory_analysis_report", now,
                 generate_memory_analysis_report(
                     stats_files, gate_analysis_report, now))
    /\ UNCHANGED <<stats_files, netlist, gate_analysis_report>>

InitReport ==
    ArtifactInit /\ IdleDie /\ IdleRunner /\ ReportInit /\ IdleSuite /\ IdleBus

\* gate_analysis.py --comprehensive: main() writes the report to
\* gate_analysis_report.md
GenerateComprehensive ==
    /\ \E now \in {clock, clock + 1} :
          Render("generate_comprehensive_gate_report", now,
                 generate_comprehensive_gate_report(stats_files, now))
    /\ gate_analysis_report' = ReportFile(documents'[Len(documents')].text)
    /\ UNCHANGED <<stats_files, netlist>>

\* gate_analysis.py without --comprehensive: main() writes the legacy
\* report to gate_analysis_report.md
GenerateLegacy ==
    /\ \E now \in {clock, clock + 1} :
          Render("generate_gate_report", now,
                 generate_gate_report(netlist, now))
    /\ gate_analysis_report' = ReportFile(documents'[Len(documents')].text)
    /\ UNCHANGED <<stats_files, netlist>>

NextReport ==
    \/ GenerateLegacy
          /\ UNCHANGED <<artifactVars, dieVars, runnerVars, suiteVars, busVars>>
    \/ GenerateComprehensive
          /\ UNCHANGED <<artifactVars, dieVars, runnerVars, suiteVars, busVars>>
    \/ GenerateMemoryAnalysisReport
          /\ UNCHANGED <<artifactVars, dieVars, runnerVars, suiteVars, busVars>>

SpecReport == InitReport /\ [][NextReport]_vars

----------------------------------------------------------------------------
(* The legacy report of a netlist that the synthesis tool writes line by   *)
(* line before the report is rendered.                                     *)

\* the netlist may hold at most this many lines
MaxNetlistLines == 3

\* the lines of a netlist: gate instantiations, a marker without
\* whitespace after it and a module instantiation
NetlistLines ==
    {<<m, " ", "x", " ", "(", "\n">> :
         m \in {"\\$_AND_", "\\$_NOT_", "\\$_DFF_", "\\$_DLATCH_",
                "\\$_ALDFFE_", "\\$_MUL_"}}
        \cup {<<"\\$_DFFE_", "(", "\n">>,
              <<"fft_engine", " ", "u1", " ", "(", "\n">>}

\* the synthesis tool creates the netlist
CreateNetlist ==
    /\ netlist = NoReport
    /\ documents = <<>>
    /\ netlist' = ReportFile(<<>>)
    /\ UNCHANGED <<stats_files, clock, gate_analysis_report, documents>>

\* the synthesis tool writes one more line
WriteNetlistLine ==
    /\ netlist # NoReport
    /\ documents = <<>>
    /\ Cardinality({i \in 1..Len(netlist.text) : netlist.text[i] = "\n"})
           < MaxNetlistLines
    /\ \E line \in NetlistLines :
          netlist' = ReportFile(netlist.text \o line)
    /\ UNCHANGED <<stats_files, clock, gate_analysis_report, documents>>

NextLegacy ==
    \/ CreateNetlist
          /\ UNCHANGED <<artifactVars, dieVars, runnerVars, suiteVars, busVars>>
    \/ WriteNetlistLine
          /\ UNCHANGED <<artifactVars, dieVars, runnerVars, suiteVars, busVars>>
    \/ GenerateLegacy
          /\ UNCHANGED <<artifactVars, dieVars, runnerVars, suiteVars, busVars>>

SpecLegacy == Init /\ [][NextLegacy]_vars

----------------------------------------------------------------------------
(* tb/cocotb: apb_write, apb_read and wait_for_completion.  A helper is a  *)
(* coroutine: a step of the model is the code it runs between two awaits,  *)
(* resumed by the rising edge it awaited.  The dut is a black box that     *)
(* drives pready_o and prdata_o; the coroutine reads the values they have  *)
(* at the edge that resumes it.                                            *)

\* the address of FFT_STATUS
FFT_STATUS == 4

\* the FFT_DONE bit of FFT_STATUS
FFT_DONE == 2

\* status & 0x02
DoneBit(value) == (value \div FFT_DONE) % 2 = 1

\* the registers the test reads and writes, and the values it writes
Addresses == {FFT_STATUS, 8}
WriteData == {0, 1}

\* the values the dut drives on prdata_o: the two low bits of FFT_STATUS
ReadData == 0..3

\* the timeouts the test passes to wait_for_completion
MaxTimeout == 2

\* the test awaits at most this many helpers
MaxCalls == 2

\* the test starts: it has driven none of the APB inputs yet, and psel_i
\* and penable_i may hold any value
BusInit ==
    /\ psel_i \in {0, 1} /\ penable_i \in {0, 1} /\ pwrite_i = 0
    /\ paddr_i = 0 /\ pwdata_i = 0
    /\ pready_o = 0 /\ prdata_o = 0
    /\ call = "none" /\ pc = "idle"
    /\ addr = 0 /\ data = 0
    /\ timeout = 0 /\ timeout_count = 0 /\ fft_status = 0 /\ polls = 0
    /\ outcome = "none"
    /\ calls = 0

\* the dut drives its outputs for the edge that resumes the coroutine
DutDrives == pready_o' \in {0, 1} /\ prdata_o' \in ReadData

\* the test awaits apb_write(dut, addr, data)
CallApbWrite ==
    /\ call = "none"
    /\ calls < MaxCalls
    /\ \E a \in Addresses, d \in WriteData : addr' = a /\ data' = d
    /\ call' = "apb_write"
    /\ pc' = "edge"
    /\ calls' = calls + 1
    /\ UNCHANGED <<psel_i, penable_i, pwrite_i, paddr_i, pwdata_i, pready_o,
                   prdata_o, timeout, timeout_count, fft_status, polls,
                   outcome>>

\* the test awaits apb_read(dut, addr)
CallApbRead ==
    /\ call = "none"
    /\ calls < MaxCalls
    /\ \E a \in Addresses : addr' = a
    /\ call' = "apb_read"
    /\ pc' = "edge"
    /\ calls' = calls + 1
    /\ UNCHANGED <<psel_i, penable_i, pwrite_i, paddr_i, pwdata_i, pready_o,
                   prdata_o, data, timeout, timeout_count, fft_status, polls,
                   outcome>>

\* the test awaits wait_for_completion(dut, timeout): the code up to the
\* first await, which is the first await of apb_read unless the loop is
\* not entered
CallWaitForCompletion ==
    /\ call = "none"
    /\ calls < MaxCalls
    /\ \E t \in 0..MaxTimeout :
          /\ timeout' = t
          /\ IF 0 < t
             THEN /\ call' = "wait_for_completion"
                  /\ pc' = "edge"
                  /\ addr' = FFT_STATUS
                  /\ outcome' = "none"
             ELSE /\ call' = "none"
                  /\ pc' = "idle"
                  /\ outcome' = "raised"
                  /\ UNCHANGED addr
    /\ timeout_count' = 0
    /\ polls' = 0
    /\ calls' = calls + 1
    /\ UNCHANGED <<psel_i, penable_i, pwrite_i, paddr_i, pwdata_i, pready_o,
                   prdata_o, data, fft_status>>

\* apb_write or apb_read after its first RisingEdge(dut.pclk_i): the setup
\* phase begins
ApbSetup ==
    /\ pc = "edge"
    /\ DutDrives
    /\ psel_i' = 1
    /\ penable_i' = 0
    /\ pwrite_i' = IF call = "apb_write" THEN 1 ELSE 0
    /\ paddr_i' = addr
    /\ pwdata_i' = IF call = "apb_write" THEN data ELSE pwdata_i
    /\ pc' = "setup"
    /\ UNCHANGED <<call, addr, data, timeout, timeout_count, fft_status,
                   polls, outcome, calls>>

\* after the second RisingEdge(dut.pclk_i): the access phase begins
ApbAccess ==
    /\ pc = "setup"
    /\ DutDrives
    /\ penable_i' = 1
    /\ pc' = "access"
    /\ UNCHANGED <<psel_i, pwrite_i, paddr_i, pwdata_i, call, addr, data,
                   timeout, timeout_count, fft_status, polls, outcome, calls>>

\* the end of apb_write and apb_read, and for the apb_read of
\* wait_for_completion the code of the loop up to its next await
ApbReturn ==
    /\ psel_i' = 0
    /\ penable_i' = 0
    /\ data' = IF call = "apb_write" THEN data ELSE prdata_o'
    /\ IF call = "wait_for_completion"
       THEN /\ fft_status' = prdata_o'
            /\ polls' = polls + 1
            /\ IF DoneBit(prdata_o')
               THEN \* break; timeout_count < timeout, so no raise
                    /\ call' = "none"
                    /\ pc' = "idle"
                    /\ outcome' = "returned"
               ELSE /\ pc' = "clk"
                    /\ UNCHANGED <<call, outcome>>
       ELSE /\ call' = "none"
            /\ pc' = "idle"
            /\ UNCHANGED <<fft_status, polls, outcome>>
    /\ UNCHANGED <<pwrite_i, paddr_i, pwdata_i, addr, timeout, timeout_count,
                   calls>>

\* the loop "while dut.pready_o.value == 0" goes round once more
ApbWait ==
    /\ pc' = "wait"
    /\ UNCHANGED <<psel_i, penable_i, pwrite_i, paddr_i, pwdata_i, call, addr,
                   data, timeout, timeout_count, fft_status, polls, outcome,
                   calls>>

\* ApbSample without the loop: pready_o is not looked at
ApbSample_NoWait ==
    /\ pc \in {"access", "wait"}
    /\ DutDrives
    /\ ApbReturn

\* after the third and every later RisingEdge(dut.pclk_i): pready_o is
\* sampled
ApbSample ==
    /\ pc \in {"access", "wait"}
    /\ DutDrives
    /\ IF pready_o' = 0 THEN ApbWait ELSE ApbReturn

\* wait_for_completion after its RisingEdge(dut.clk_i): the loop up to the
\* first await of the next apb_read, or the raise after the loop
ClkEdge ==
    /\ pc = "clk"
    /\ timeout_count' = timeout_count + 1
    /\ IF timeout_count' < timeout
       THEN /\ pc' = "edge"
            /\ UNCHANGED <<call, outcome>>
       ELSE /\ call' = "none"
            /\ pc' = "idle"
            /\ outcome' = "raised"
    /\ UNCHANGED <<psel_i, penable_i, pwrite_i, paddr_i, pwdata_i, pready_o,
                   prdata_o, addr, data, timeout, fft_status, polls, calls>>

\* a rising edge resumes the coroutine
Resume ==
    /\ ApbSetup \/ ApbAccess \/ ApbSample \/ ClkEdge
    /\ UNCHANGED <<artifactVars, dieVars, runnerVars, reportVars, suiteVars>>

InitBus ==
    ArtifactInit /\ IdleDie /\ IdleRunner /\ IdleReport /\ IdleSuite /\ BusInit

NextBus ==
    \/ CallApbWrite
          /\ UNCHANGED <<artifactVars, dieVars, runnerVars, reportVars, suiteVars>>
    \/ CallApbRead
          /\ UNCHANGED <<artifactVars, dieVars, runnerVars, reportVars, suiteVars>>
    \/ CallWaitForCompletion
          /\ UNCHANGED <<artifactVars, dieVars, runnerVars, reportVars, suiteVars>>
    \/ ApbSetup
          /\ UNCHANGED <<artifactVars, dieVars, runnerVars, reportVars, suiteVars>>
    \/ ApbAccess
          /\ UNCHANGED <<artifactVars, dieVars, runnerVars, reportVars, suiteVars>>
    \/ ApbSample
          /\ UNCHANGED <<artifactVars, dieVars, runnerVars, reportVars, suiteVars>>
    \/ ClkEdge
          /\ UNCHANGED <<artifactVars, dieVars, runnerVars, reportVars, suiteVars>>

SpecBus == InitBus /\ [][NextBus]_vars

\* the simulator runs both clocks for as long as a coroutine awaits an edge
SpecBusFair == SpecBus /\ WF_vars(Resume)

----------------------------------------------------------------------------
(* Claims about the extraction *)

\* the nouns of the ten labels, as the claims name them
LabelNoun == [cells            |-> "cells",
              wires            |-> "wires",
              wire_bits        |-> "wire bits",
              public_wires     |-> "public wires",
              public_wire_bits |-> "public wire bits",
              ports            |-> "ports",
              port_bits        |-> "port bits",
              memories         |-> "memories",
              memory_bits      |-> "memory bits",
              processes        |-> "processes"]

LabelText(m) == "Number of " \o LabelNoun[m] \o ":"

\* the value of the decimal numeral text[a..b]
RECURSIVE Decimal(_, _, _)
Decimal(text, a, b) ==
    IF a > b THEN 0
    ELSE DigitValue[text[a]] * 10 ^ (b - a) + Decimal(text, a + 1, b)

\* text[i] is lit, followed by w >= 1 whitespace characters and then by the
\* numeral of d >= 1 digits (all the digits there are)
OccurrenceAt(text, i, lit, w, d) ==
    /\ i + w + d <= Len(text)
    /\ text[i] = lit
    /\ \A k \in (i + 1)..(i + w) : text[k] \in WS
    /\ \A k \in (i + w + 1)..(i + w + d) : text[k] \in Digit
    /\ (i + w + d = Len(text) \/ text[i + w + d + 1] \notin Digit)

Occurrences(text, lit) ==
    UNION {{o \in {i} \X (1..Len(text)) \X (1..Len(text)) :
               OccurrenceAt(text, o[1], lit, o[2], o[3])} :
           i \in {j \in 1..Len(text) : text[j] = lit}}

FirstOccurrence(text, lit) ==
    CHOOSE o \in Occurrences(text, lit) :
        \A q \in Occurrences(text, lit) : o[1] <= q[1]

FirstValue(text, lit) ==
    LET o == FirstOccurrence(text, lit)
    IN  Decimal(text, o[1] + o[2] + 1, o[1] + o[2] + o[3])

\* C1: the record parse_synthesis_stats returns for an existing file holds,
\* for each of the ten labels, the integer of the first
\* "<Label>:<whitespace><digits>" occurrence of the text when there is one,
\* and has no key for the metric when there is none.
C1_FirstMatchOrOmitted ==
    stats.type = "dict" =>
        \A m \in Metric :
            IF Occurrences(content, LabelText(m)) # {}
            THEN /\ m \in DOMAIN stats.items
                 /\ stats.items[m] = FirstValue(content, LabelText(m))
            ELSE m \notin DOMAIN stats.items

\* a label occurs twice with different integers, and another label occurs
\* without a numeral after it
C1_Witness ==
    /\ stats.type = "dict"
    /\ \E m \in Metric :
          \E o, q \in Occurrences(content, LabelText(m)) :
              /\ o[1] < q[1]
              /\ Decimal(content, o[1] + o[2] + 1, o[1] + o[2] + o[3])
                   # Decimal(content, q[1] + q[2] + 1, q[1] + q[2] + q[3])
    /\ \E m \in Metric : m \in DOMAIN stats.items /\ stats.items[m] > 0

\* text[s..e] is the line "<lit> <digits>\n"
IsFieldLine(text, s, e, lit) ==
    /\ text[s] = lit
    /\ text[e] = "\n"
    /\ \E k \in (s + 2)..(e - 1) :
          /\ \A i \in (s + 1)..(k - 1) : text[i] = " "
          /\ \A i \in k..(e - 1) : text[i] \in Digit

\* the value a field line text[s..e] shows
FieldLineValue(text, s, e) ==
    LET k == CHOOSE j \in (s + 2)..(e - 1) :
                /\ \A i \in (s + 1)..(j - 1) : text[i] = " "
                /\ \A i \in j..(e - 1) : text[i] \in Digit
    IN  Decimal(text, k, e - 1)

\* the text is a "Number of cells" line and a "Number of wires" line, in
\* this order, the first line ending at position p
CellsThenWires(text, p) ==
    /\ p < Len(text)
    /\ IsFieldLine(text, 1, p, "Number of cells:")
    /\ IsFieldLine(text, p + 1, Len(text), "Number of wires:")

OnlyCellsAndWires(text) == \E p \in 1..Len(text) : CellsThenWires(text, p)

\* the text "Number of cells:      1234\nNumber of wires:       56\n"
ScenarioText ==
    <<"Number of cells:", " ", " ", " ", " ", " ", " ", "1", "2", "3", "4", "\n",
      "Number of wires:", " ", " ", " ", " ", " ", " ", " ", "5", "6", "\n">>

\* C2 as stated: for a text of only a cells line and a wires line, the
\* returned record has exactly the keys cells and wires.
C2_ExactlyCellsAndWires ==
    (stats.type = "dict" /\ OnlyCellsAndWires(content)) =>
        DOMAIN stats.items = {"cells", "wires"}

\* C2 amended: for such a text the record holds cells and wires with the
\* values of the two lines and no other metric key; its only other key is
\* cell_breakdown, which holds an empty mapping.
C2_CellsWiresAndBreakdown ==
    (stats.type = "dict" /\ OnlyCellsAndWires(content)) =>
        LET p == CHOOSE q \in 1..Len(content) : CellsThenWires(content, q)
        IN  /\ parse_synthesis_stats(TRUE, ScenarioText) =
                   Dict([cells |-> 1234, wires |-> 56, cell_breakdown |-> EmptyDict])
            /\ DOMAIN stats.items = {"cells", "wires", "cell_breakdown"}
            /\ stats.items["cells"] = FieldLineValue(content, 1, p)
            /\ stats.items["wires"] = FieldLineValue(content, p + 1, Len(content))
            /\ DOMAIN stats.items["cell_breakdown"] = {}

C2_Witness ==
    /\ stats.type = "dict"
    /\ OnlyCellsAndWires(content)
    /\ stats.items["cells"] # stats.items["wires"]

\* no "<Label>:<whitespace><digits>" occurrence of any of the ten labels
NoMatchingField(text) ==
    \A m \in Metric : Occurrences(text, LabelText(m)) = {}

\* C3: for a path that does not exist parse_synthesis_stats and
\* analyze_gates return None; for a file that exists parse_synthesis_stats
\* returns a record, which is not None also when no field matches (the
\* record then has no metric key).
C3_AbsentIsNone ==
    /\ (stats # NotCalled /\ ~exists) => stats = None
    /\ (analysis # NotCalled /\ ~exists) => analysis = None
    /\ (stats # NotCalled /\ exists) =>
          /\ stats # None
          /\ stats.type = "dict"
          /\ NoMatchingField(content) => DOMAIN stats.items \cap Metric = {}
    /\ (analysis # NotCalled /\ exists) => analysis # None

\* both calls made on a path that does not exist
C3_Witness ==
    /\ ~exists
    /\ stats = None
    /\ analysis = None

\* C4 as stated: every key of a cell breakdown (cell_breakdown of
\* parse_synthesis_stats, gate_counts of analyze_gates) has a count >= 1.
C4_BreakdownCountsPositive ==
    /\ stats.type = "dict" =>
          \A g \in DOMAIN stats.items["cell_breakdown"] :
              stats.items["cell_breakdown"][g] >= 1
    /\ analysis.type = "dict" =>
          \A g \in DOMAIN analysis.items["gate_counts"] :
              analysis.items["gate_counts"][g] >= 1

\* the transistor-cost table of the claim
ClaimCost(t) ==
    CASE t \in {"AND", "OR"} -> 6
      [] t \in {"XOR", "XNOR"} -> 8
      [] t \in {"ANDNOT", "NAND", "NOR"} -> 4
      [] t = "NOT" -> 2
      [] t \in {"MUX", "LATCH"} -> 12
      [] t = "DFF" -> 20
      [] t = "DFFE" -> 24
      [] t = "ALDFFE" -> 28
      [] t = "MUL" -> 200
      [] t \in {"ADD", "SUB"} -> 50
      [] t = "ROM" -> 100
      [] t = "RAM" -> 150

\* the sum of count * cost over the types of a breakdown
RECURSIVE CostSum(_, _)
CostSum(breakdown, types) ==
    IF types = {} THEN 0
    ELSE LET t == CHOOSE x \in types : TRUE
         IN  breakdown[t] * ClaimCost(t) + CostSum(breakdown, types \ {t})

\* C5: total_transistors of analyze_gates is the sum over the gate types of
\* the breakdown of count * transistor_cost[type]; {NOT: 10, MUX: 5, DFF: 2}
\* gives 120.
C5_TransistorSum ==
    /\ analysis.type = "dict" =>
          analysis.items["total_transistors"] =
              CostSum(analysis.items["gate_counts"],
                      DOMAIN analysis.items["gate_counts"])
    /\ TotalTransistors([NOT |-> 10, MUX |-> 5, DFF |-> 2]) = 120

\* a netlist with gates of two types of different cost
C5_Witness ==
    /\ analysis.type = "dict"
    /\ \E g, h \in DOMAIN analysis.items["gate_counts"] :
          ClaimCost(g) # ClaimCost(h)
    /\ analysis.items["total_transistors"] > 0

\* C6 is not settled: analyze_gates enters in gate_counts only the 18 types
\* of gate_patterns, which are the 18 keys of transistor_counts, so no
\* reachable breakdown has a type without a table entry.

\* C7: asic_45nm.logic_area is total_cells / 1,200,000, total_area is
\* logic_area + 0.5, memory_area is 0.5 and gate_density is 1,200,000
\* whatever total_cells is.
C7_DieAreas ==
    estimates.type = "dict" =>
        LET asic == estimates.items.asic_45nm
        IN  /\ RatTimes(asic.logic_area, 1200000) = <<total_cells, 1>>
            /\ asic.total_area = RatAdd(asic.logic_area, <<1, 2>>)
            /\ asic.memory_area = <<1, 2>>
            /\ asic.gate_density = 1200000

\* estimates for a design of more than one gate-density's worth of cells
C7_Witness ==
    /\ estimates.type = "dict"
    /\ total_cells = 2400000
    /\ estimates.items.asic_45nm.logic_area = <<2, 1>>
    /\ estimates.items.asic_45nm.total_area = <<5, 2>>

----------------------------------------------------------------------------
(* Claims about the regression evaluator *)

\* the modules the evaluator judges
JudgedModules == {"memory_interface", "twiddle_rom", "comprehensive"}

\* the print that reports success, and the one that reports no improvement
SuccessPrint ==
    [memory_interface |-> "Memory interface optimization successful: {} < {}",
     twiddle_rom      |-> "Twiddle ROM optimization successful: {} > {}",
     comprehensive    |-> "Overall optimization successful: {} < {}"]

NotImprovedPrint ==
    [memory_interface |-> "Memory interface cell count higher than expected: {} >= {}",
     twiddle_rom      |-> "Twiddle ROM cell count lower than expected: {} <= {}",
     comprehensive    |-> "Overall cell count higher than expected: {} >= {}"]

\* the positions of the log that hold a verdict about the module
Verdicts(module) ==
    {i \in 1..Len(log) :
        log[i].format \in {SuccessPrint[module], NotImprovedPrint[module]}}

Measured(i) == log[i].args[1]
Threshold(i) == log[i].args[2]

IsSuccess(i, module) ==
    log[i].status = "SUCCESS" /\ log[i].format = SuccessPrint[module]

IsNotImproved(i, module) ==
    log[i].status = "WARNING" /\ log[i].format = NotImprovedPrint[module]

\* C8: when the measured cell count equals the expected threshold the
\* verdict is the not-improved one (WARNING), never SUCCESS, for the
\* modules judged by "<" and the one judged by ">".
C8_EqualityIsNotSuccess ==
    \A module \in JudgedModules : \A i \in Verdicts(module) :
        /\ Measured(i) = synthesis_results[module]["cells"]
        /\ Measured(i) = Threshold(i) =>
              IsNotImproved(i, module) /\ ~IsSuccess(i, module)

\* a run in which memory_interface (judged by "<") and twiddle_rom (judged
\* by ">") both measured exactly their thresholds
C8_Witness ==
    /\ \E i \in Verdicts("memory_interface") :
          Measured(i) = Threshold(i) /\ log[i].status = "WARNING"
    /\ \E i \in Verdicts("twiddle_rom") :
          Measured(i) = Threshold(i) /\ log[i].status = "WARNING"

\* the status the evaluator prints for a module and a cell count
StatusFor(module, cell_count) ==
    evaluate_synthesis_results(<<>>, module, cell_count)[1].status

SampleCounts == {PyInt(n) : n \in SampleNumerals}

\* the smaller cell counts a measured value is compared with
Smaller(m) == {c \in SampleCounts \cup {m - 1, m \div 2} : 0 <= c /\ c < m}

\* C9: for a module judged by "measured < expected" (memory_interface,
\* comprehensive), when a measured value yields the success verdict, every
\* smaller measured value yields it too.
C9_Monotonic ==
    \A module \in {"memory_interface", "comprehensive"} :
        \A i \in Verdicts(module) :
            IsSuccess(i, module) =>
                \A c \in Smaller(Measured(i)) : StatusFor(module, c) = "SUCCESS"

\* the whole design passed with a count that has smaller counts below it
C9_Witness ==
    \E i \in Verdicts("comprehensive") :
        /\ IsSuccess(i, "comprehensive")
        /\ Cardinality(Smaller(Measured(i))) >= 3

----------------------------------------------------------------------------
(* Claims about the verdicts of a synthesis run *)

\* every module run_synthesis_tests synthesizes
SynthesizedModules ==
    {test_modules[i] : i \in 1..Len(test_modules)} \cup {"comprehensive"}

\* every print that is a verdict of _evaluate_synthesis_results
VerdictPrints ==
    {SuccessPrint[m] : m \in JudgedModules}
        \cup {NotImprovedPrint[m] : m \in JudgedModules}

\* the positions of the log where the module's cell count is announced
CellCountPrints(module) ==
    {i \in 1..Len(log) :
        /\ log[i].format = "{} cell count: {}"
        /\ log[i].args[1] = module}

\* the verdicts printed for the module's cell count: those that follow its
\* announcement before the next synthesis reports its outcome
VerdictsAfter(module) ==
    {i \in 2..Len(log) :
        /\ i - 1 \in CellCountPrints(module)
        /\ log[i].format \in VerdictPrints}

\* the cell count of the module was extracted
Extracted(module) == module \in DOMAIN synthesis_results

\* C11 as stated: every synthesized module whose cell count is extracted
\* (memory_interface, twiddle_rom, fft_control, comprehensive) gets exactly
\* one verdict.
C11_OneVerdictPerModule ==
    \A module \in SynthesizedModules :
        Extracted(module) => Cardinality(VerdictsAfter(module)) = 1

\* C11: a module with an expected result (memory_interface, twiddle_rom,
\* comprehensive) gets exactly one verdict when its cell count is
\* extracted, a success or a not-improved one about that count, and none
\* otherwise; fft_control, which has no expected result, gets no verdict
\* even when its cell count is extracted.
C11_OneVerdictPerJudgedModule ==
    /\ \A module \in JudgedModules :
          /\ Extracted(module) =>
                /\ Cardinality(Verdicts(module)) = 1
                /\ Verdicts(module) = VerdictsAfter(module)
                /\ \A i \in Verdicts(module) :
                      /\ IsSuccess(i, module) # IsNotImproved(i, module)
                      /\ Measured(i) = synthesis_results[module]["cells"]
          /\ ~Extracted(module) => Verdicts(module) = {}
    /\ \A module \in SynthesizedModules \ JudgedModules :
          VerdictsAfter(module) = {}
    /\ \A i \in 1..Len(log) :
          log[i].format \in VerdictPrints =>
              \E module \in JudgedModules : i \in VerdictsAfter(module)

\* all four syntheses left a cell count: three verdicts, none for fft_control
C11_Witness ==
    /\ \A module \in SynthesizedModules : Extracted(module)
    /\ CellCountPrints("fft_control") # {}
    /\ \A module \in JudgedModules : Cardinality(Verdicts(module)) = 1

\* the prints of _analyze_synthesis_results for a report without data
NoDataPrints ==
    {"Synthesis report not found: {}",
     "Could not extract cell count from {} report"}

\* the positions of the log that report no data for the module
NoDataAt(module) ==
    {i \in 1..Len(log) :
        log[i].format \in NoDataPrints /\ log[i].args[1] = module}

\* the module's report exists and holds no "Number of cells:" value
NoCellCount(module) ==
    /\ ReportOf(reports, module).type = "file"
    /\ FieldMatches(ReportOf(reports, module).text, "Number of cells:") = {}

\* C12: a missing report, or one without a parseable "Number of cells"
\* value, yields a print that is none of the verdicts of
\* _evaluate_synthesis_results (a WARNING with its own message), no
\* comparison is made (no cell count announced, no verdict, the print is
\* followed at once by the outcome of the synthesis) and synthesis_results
\* gets no entry for the module.
C12_NoDataIsNoVerdict ==
    /\ \A module \in SynthesizedModules :
          /\ NoCellCount(module) =>
                \E i \in NoDataAt(module) :
                    log[i].format =
                        "Could not extract cell count from {} report"
          /\ \A i \in NoDataAt(module) :
                /\ log[i].status = "WARNING"
                /\ log[i].format \notin VerdictPrints
                /\ ~Extracted(module)
                /\ CellCountPrints(module) = {}
                /\ VerdictsAfter(module) = {}
                /\ module \in JudgedModules => Verdicts(module) = {}
                /\ i < Len(log)
                /\ log[i + 1].status = "SUCCESS"
                /\ log[i + 1].format \notin VerdictPrints
                /\ Cardinality(NoDataAt(module)) = 1
                /\ ReportOf(reports, module) = NoReport
                       \/ NoCellCount(module)

\* memory_interface left no report, twiddle_rom a report whose cell count
\* is not a number, and the whole design was measured and judged
C12_Witness ==
    /\ \E i \in NoDataAt("memory_interface") :
          log[i].format = "Synthesis report not found: {}"
    /\ NoCellCount("twiddle_rom")
    /\ ReportOf(reports, "twiddle_rom").text =
           <<"Number of cells:", " ", "x", "\n">>
    /\ Extracted("comprehensive")

----------------------------------------------------------------------------
(* Claims about the netlist scan *)

\* the Verilog keywords the scan skips
ReservedWords == {"module", "input", "output", "wire"}

\* the names under which primitive gates are instantiated, without the
\* leading \$ that is not a \w character
PrimitiveNames == {MarkerWord[g] : g \in GateType}

\* C20: after analyze_gates, module_instances has no entry for a reserved
\* word (module, input, output, wire) and none that stems from the
\* instantiation of a primitive gate, such as '\$_AND_ <name> ('.
C20_NoReservedNoPrimitive ==
    analysis.type = "dict" =>
        DOMAIN analysis.items.module_instances
            \cap (ReservedWords \cup PrimitiveNames) = {}

----------------------------------------------------------------------------
(* Claims about the rendered reports *)

\* the documents a renderer has produced so far
DocumentsOf(renderer) ==
    {documents[k].text : k \in {j \in 1..Len(documents) :
                                    documents[j].renderer = renderer}}

\* the lines of a document at which the given line stands
LinesOf(doc, line) == {k \in 1..Len(doc) : doc[k] = line}

\* the lines of a document after the first heading and before the second
Between(doc, first, second) ==
    {doc[k] : k \in (MinOf(LinesOf(doc, <<first>>)) + 1)
                        .. (MinOf(LinesOf(doc, <<second>>)) - 1)}

\* the section of the memory report about a module
MemorySection(doc, module) ==
    IF module = "memory_interface"
    THEN Between(doc, "### Memory Interface Analysis",
                      "### Twiddle ROM Analysis")
    ELSE Between(doc, "### Twiddle ROM Analysis",
                      "### Overall Design Analysis")

NoSynthesisData == <<"**Status:** No synthesis data available">>

IsCellCountLine(line) == line # <<>> /\ line[1] = "- **Cell Count:** "

\* C13: in the memory report, the section of memory_interface (resp.
\* twiddle_rom) holds the line "No synthesis data available" and no
\* "Cell Count" line when the module's stats file does not exist; when the
\* file exists and states a cell count, the section holds that count in a
\* "Cell Count" line and not the "No synthesis data available" line.
C13_MissingFileIsNoData ==
    \A doc \in DocumentsOf("generate_memory_analysis_report") :
        \A module \in {"memory_interface", "twiddle_rom"} :
            LET file    == stats_files[module]
                section == MemorySection(doc, module)
            IN  /\ file = NoReport =>
                      /\ NoSynthesisData \in section
                      /\ \A line \in section : ~IsCellCountLine(line)
                /\ (/\ file # NoReport
                    /\ FieldMatches(file.text, "Number of cells:") # {}) =>
                      /\ (<<"- **Cell Count:** ">>
                             \o FieldGroup(file.text, "Number of cells:"))
                            \in section
                      /\ Cardinality({line \in section :
                                         IsCellCountLine(line)}) = 1
                      /\ NoSynthesisData \notin section

\* a memory report of a project whose memory_interface has no stats file
\* and whose twiddle_rom has 30 cells
C13_Witness ==
    \E doc \in DocumentsOf("generate_memory_analysis_report") :
        /\ stats_files["memory_interface"] = NoReport
        /\ NoSynthesisData \in MemorySection(doc, "memory_interface")
        /\ <<"- **Cell Count:** ", "3", "0">>
               \in MemorySection(doc, "twiddle_rom")

\* the rows of the table of a document whose head is the given line: the
\* lines after the head and the rule below it, up to the next empty line
TableRows(doc, head) ==
    LET h   == MinOf(LinesOf(doc, <<head>>))
        end == MinOf({k \in h..Len(doc) : doc[k] = <<"">>})
    IN  SubSeq(doc, h + 2, end - 1)

SummaryTable(doc) ==
    TableRows(doc,
        "| Module | Cells | Wire Bits | Public Wires | Key Components |")

\* the six modules of the design, as the report names them
SixModules ==
    [fft_engine           |-> "FFT Engine",
     fft_control          |-> "FFT Control",
     rescale_unit         |-> "Rescale Unit",
     scale_factor_tracker |-> "Scale Factor Tracker",
     twiddle_rom          |-> "Twiddle ROM",
     memory_interface     |-> "Memory Interface"]

\* the rows of a table that are about the module
RowsOf(table, display_name) ==
    {k \in 1..Len(table) : table[k][2] = display_name}

\* the entries of a summary row under Cells, Wire Bits and Public Wires
Cells(row) == row[4]
WireBits(row) == row[6]
PublicWires(row) == row[8]

\* the statistics file of the module states the field
States(module_name, label) ==
    /\ stats_files[module_name] # NoReport
    /\ FieldMatches(stats_files[module_name].text, label) # {}

\* C14: whichever stats files are present or missing, the Gate Count
\* Summary table has exactly one row for each of the six modules and no
\* other row; a module without data (no stats file, or a file that does
\* not state the field) shows "-" under Cells, Wire Bits and Public Wires.
C14_OneRowPerModule ==
    \A doc \in DocumentsOf("generate_comprehensive_gate_report") :
        LET table == SummaryTable(doc)
        IN  /\ Len(table) = 6
            /\ \A m \in DOMAIN SixModules :
                  /\ Cardinality(RowsOf(table, SixModules[m])) = 1
                  /\ \A k \in RowsOf(table, SixModules[m]) :
                        /\ table[k][1] = "| **"
                        /\ Len(table[k]) = 11
                        /\ ~States(m, "Number of cells:")
                               => Cells(table[k]) = "-"
                        /\ ~States(m, "Number of wire bits:")
                               => WireBits(table[k]) = "-"
                        /\ ~States(m, "Number of public wires:")
                               => PublicWires(table[k]) = "-"
                        /\ States(m, "Number of cells:")
                               => Cells(table[k]) # "-"

\* a report of a project with the stats file of fft_engine only: its row
\* comes first and states the counts, the five other rows hold "-"
C14_Witness ==
    \E doc \in DocumentsOf("generate_comprehensive_gate_report") :
        /\ \A m \in DOMAIN SixModules :
              stats_files[m] # NoReport <=> m = "fft_engine"
        /\ SummaryTable(doc)[1] =
               <<"| **", "FFT Engine", "** | ", "12", " | ", "7", " | ", "3",
                 " | ", "Butterfly operations, pipeline", " |">>
        /\ \A k \in 2..6 : Cells(SummaryTable(doc)[k]) = "-"

\* the lines of the Test Results section of python_test_report.md
TestResults ==
    LET doc == test_report.text
        h   == MinOf(LinesOf(doc, <<"## Test Results">>))
        end == MinOf({k \in h..Len(doc) : doc[k] = <<"">>})
    IN  {doc[k] : k \in h + 1 .. end - 1}

\* C15: once the test report is written, its Test Results section has a
\* line for every module that was synthesized (memory_interface,
\* twiddle_rom, fft_control and comprehensive), and a module whose cell
\* count could not be obtained is shown with "N/A".
C15_LineForEverySynthesizedModule ==
    test_report # NoReport =>
        \A module \in SynthesizedModules :
            \E line \in TestResults :
                /\ line[2] = module
                /\ line[4] = IF Extracted(module)
                             THEN ToString(synthesis_results[module]["cells"])
                             ELSE "N/A"

StatusTable(doc) ==
    TableRows(doc, "| Module | Status | Synthesis Time | Quality |")

\* the entry of a status row under Status
Status(row) == row[4]

\* C16: in the Module Synthesis Status table a module for which no
\* synthesis data was found (its stats file is missing) has a status that
\* is neither PASS nor PARTIAL, the statuses of a module whose data was
\* found.
C16_NoDataStatusDiffers ==
    \A doc \in DocumentsOf("generate_comprehensive_gate_report") :
        \A m \in DOMAIN SixModules :
            stats_files[m] = NoReport =>
                \A k \in RowsOf(StatusTable(doc), SixModules[m]) :
                    Status(StatusTable(doc)[k]) \notin {"PASS", "PARTIAL"}

\* the headings of the sections of the comprehensive report
SectionHeadings ==
    << <<"## Gate Count Summary">>,
       <<"### **Estimated ", "Total Gate Count", ":", "**">>,
       <<"## Die Size Estimates">>,
       <<"### **ASIC Implementation (45nm process):**">>,
       <<"### **FPGA Implementation:**">>,
       <<"## Performance Analysis">>,
       <<"### **Area Efficiency**">>,
       <<"### **Design Trade-offs**">>,
       <<"## Technology Considerations">>,
       <<"## Synthesis Quality Metrics">>,
       <<"### **Module Synthesis Status**">>,
       <<"### **Quality Indicators**">>,
       <<"## Recommendations for Production">>,
       <<"## Conclusion">> >>

\* the section headings of a document, in the order they stand in it
HeadingsOf(doc) ==
    LET IsHeading(line) ==
            \E i \in 1..Len(SectionHeadings) : SectionHeadings[i] = line
    IN  SelectSeq(doc, IsHeading)

\* the first line of a document that is the given heading
Pos(doc, heading) == MinOf(LinesOf(doc, heading))

\* the lines of the per-module breakdown: the Area Efficiency lines
BreakdownLines(doc) ==
    {k \in 1..Len(doc) : Len(doc[k]) = 6 /\ doc[k][5] = " cells for "}

\* C17 as stated: the summary table comes first, then the per-module
\* breakdown, then the die size and FPGA estimates, then the synthesis
\* status table, then the recommendations.
C17_BreakdownBeforeEstimates ==
    \A doc \in DocumentsOf("generate_comprehensive_gate_report") :
        /\ Pos(doc, <<"## Gate Count Summary">>)
               < Pos(doc, <<"### **Area Efficiency**">>)
        /\ Pos(doc, <<"### **Area Efficiency**">>)
               < Pos(doc, <<"## Die Size Estimates">>)
        /\ Pos(doc, <<"## Die Size Estimates">>)
               < Pos(doc, <<"### **Module Synthesis Status**">>)
        /\ Pos(doc, <<"### **Module Synthesis Status**">>)
               < Pos(doc, <<"## Recommendations for Production">>)

\* C17: for every combination of present and missing stats files the
\* sections of the report stand in one fixed order: the summary table
\* with the estimated totals, then the die size and FPGA estimates, then
\* the per-module area lines (one for each module found with cells), then
\* the fixed technology text, then the synthesis status table, then the
\* recommendations and the conclusion.  The per-module breakdown follows
\* the estimates; no breakdown stands between the summary table and them.
C17_FixedSectionOrder ==
    \A doc \in DocumentsOf("generate_comprehensive_gate_report") :
        /\ HeadingsOf(doc) = SectionHeadings
        /\ Len(SummaryTable(doc)) = 6
        /\ Pos(doc, <<"## Gate Count Summary">>)
               < Pos(doc, <<"### **Estimated ", "Total Gate Count", ":", "**">>)
        /\ \A k \in BreakdownLines(doc) :
              /\ Pos(doc, <<"### **Area Efficiency**">>) < k
              /\ k < Pos(doc, <<"### **Design Trade-offs**">>)
        /\ Len(StatusTable(doc)) = 6
        /\ Pos(doc, <<"### **Module Synthesis Status**">>)
               < Pos(doc, <<"### **Quality Indicators**">>)
        /\ doc[Len(doc)] = ReportTail[Len(ReportTail)]

\* a report of a project with some stats files missing and two modules
\* found with cells, whose area lines stand after the estimates
C17_Witness ==
    \E doc \in DocumentsOf("generate_comprehensive_gate_report") :
        /\ stats_files["twiddle_rom"] = NoReport
        /\ stats_files["fft_control"] = NoReport
        /\ Cardinality(BreakdownLines(doc)) = 2
        /\ \A k \in BreakdownLines(doc) :
              Pos(doc, <<"## Die Size Estimates">>) < k

\* the renderers of the three reports
Renderers == {"generate_comprehensive_gate_report", "generate_gate_report",
              "generate_memory_analysis_report"}

\* the renderers whose document main() writes to gate_analysis_report.md
GateReportWriters == {"generate_comprehensive_gate_report",
                      "generate_gate_report"}

\* two calls of one renderer on identical inputs: the statistics files and
\* the netlist never change, and gate_analysis_report.md, which the memory
\* report reads, was not written between the two calls
SameInputs(i, j) ==
    /\ i < j
    /\ documents[i].renderer = documents[j].renderer
    /\ documents[i].renderer = "generate_memory_analysis_report" =>
           \A k \in i + 1 .. j - 1 :
               documents[k].renderer \notin GateReportWriters

\* the line that states the time of generation
IsGeneratedLine(line) ==
    Len(line) = 2 /\ line[1] \in {"Generated: ", "**Generated:** "}

\* the lines in which two documents of the same length differ
Differing(a, b) == {k \in 1..Len(a) : a[k] # b[k]}

\* C18: two calls of a renderer on identical inputs give documents of the
\* same length that differ in no line but the one "Generated:" line each
\* document has, and in that line only by the time stated.
C18_OnlyTimestampDiffers ==
    \A i, j \in 1..Len(documents) :
        SameInputs(i, j) =>
            LET a == documents[i].text
                b == documents[j].text
            IN  /\ Len(a) = Len(b)
                /\ Cardinality({k \in 1..Len(a) : IsGeneratedLine(a[k])}) = 1
                /\ \A k \in Differing(a, b) :
                      /\ IsGeneratedLine(a[k])
                      /\ IsGeneratedLine(b[k])
                      /\ a[k][1] = b[k][1]
                /\ Cardinality(Differing(a, b)) <= 1

\* the comprehensive report was rendered twice, a second apart, from stats
\* files that state cells: the two documents differ in exactly one line
C18_Witness ==
    /\ Len(documents) >= 2
    /\ documents[1].renderer = "generate_comprehensive_gate_report"
    /\ SameInputs(1, 2)
    /\ stats_files["fft_engine"] # NoReport
    /\ Cardinality(Differing(documents[1].text, documents[2].text)) = 1

\* the total cell count a comprehensive report states
RenderedTotal(doc) ==
    LET at == {k \in 1..Len(doc) : doc[k][1] = "- **Reported Modules**: ~"}
    IN  doc[MinOf(at)][2]

\* the memory report documents[j] read the gate report documents[i]
ReadBack(i, j) ==
    /\ i < j
    /\ documents[i].renderer \in GateReportWriters
    /\ documents[j].renderer = "generate_memory_analysis_report"
    /\ \A k \in i + 1 .. j - 1 : documents[k].renderer \notin GateReportWriters

\* C19: the total gate count that the memory analysis reads back from the
\* "Total Gate Count:" line of a comprehensive gate report, and writes in
\* its own report, is the total cell count that report was rendered from.
C19_TotalGateCountRoundTrip ==
    \A i, j \in 1..Len(documents) :
        (/\ ReadBack(i, j)
         /\ documents[i].renderer = "generate_comprehensive_gate_report") =>
            <<"**", "Total Gate Count", ":", "** ",
              RenderedTotal(documents[i].text)>>
                \in {documents[j].text[k] : k \in 1..Len(documents[j].text)}

----------------------------------------------------------------------------
(* Claims about the gate counts of the netlist scan *)

\* the positions at which a marker stands in the text
MarkerAt(text, lit) == {i \in 1..Len(text) : text[i] = lit}

\* the character after token i is a whitespace character
BeforeWhitespace(text, i) == i < Len(text) /\ text[i + 1] \in WS

\* C21 as stated: for each of the 18 gate types, gate_counts[type] is the
\* number of textual occurrences of its marker in the netlist, whatever
\* precedes or follows the marker.
C21_CountsEveryOccurrence ==
    analysis.type = "dict" =>
        \A g \in GateType :
            DictGet(analysis.items.gate_counts, g, 0)
                = Cardinality(MarkerAt(content, gate_patterns[g]))

\* C21: for each of the 18 gate types, gate_counts[type] is the number of
\* occurrences of its marker that are followed by a whitespace character,
\* whatever precedes the marker and whatever follows the whitespace; each of
\* them counts once and for one type, so that total_primitive_gates is the
\* number of markers followed by whitespace.  A type without such an
\* occurrence has no entry.
C21_CountsOccurrencesBeforeWhitespace ==
    analysis.type = "dict" =>
        /\ \A g \in GateType :
              LET n == Cardinality({i \in MarkerAt(content, gate_patterns[g]) :
                                       BeforeWhitespace(content, i)})
              IN  /\ DictGet(analysis.items.gate_counts, g, 0) = n
                  /\ g \in DOMAIN analysis.items.gate_counts <=> n > 0
        /\ analysis.items.total_primitive_gates
              = Cardinality({i \in 1..Len(content) :
                                /\ content[i] \in MarkerToken
                                /\ BeforeWhitespace(content, i)})

\* a scanned netlist with a counted marker in the middle of a line and a
\* marker that no whitespace follows
C21_Witness ==
    /\ analysis.type = "dict"
    /\ \E i, j \in 1..Len(content) :
          /\ i > 1
          /\ content[i - 1] = " "
          /\ content[i] \in MarkerToken
          /\ BeforeWhitespace(content, i)
          /\ content[j] \in MarkerToken
          /\ ~BeforeWhitespace(content, j)
    /\ DOMAIN analysis.items.gate_counts # {}

----------------------------------------------------------------------------
(* Claims about the fields of the memory analysis *)

\* C22: analyze_memory_usage_results returns for every content of an
\* existing memory_interface stats file, and each field is recorded exactly
\* when the text holds its label: cell_count with "Number of cells:",
\* memory_bits with "Number of memory bits:", the one whether or not the
\* other is there.
C22_FieldFailureIsLocal ==
    \A k \in 1..Len(documents) :
        (/\ documents[k].renderer = "generate_memory_analysis_report"
         /\ stats_files["memory_interface"] # NoReport) =>
            LET text == stats_files["memory_interface"].text
                mi   == analyze_memory_usage_results(
                            stats_files, gate_analysis_report).memory_interface
            IN  /\ "cell_count" \in DOMAIN mi
                      <=> Holds(text, "Number of cells:")
                /\ "memory_bits" \in DOMAIN mi
                      <=> Holds(text, "Number of memory bits:")

----------------------------------------------------------------------------
(* Claims about missing values in the comprehensive report *)

\* the cell count the statistics file of the module states
StatedCells(module_name) ==
    PyInt(FieldGroup(stats_files[module_name].text, "Number of cells:"))

\* the modules whose statistics file exists and states a cell count
ModulesWithCells ==
    {m \in DOMAIN SixModules : States(m, "Number of cells:")}

\* C23: in the comprehensive report, a module whose stats file exists but
\* states no cell count has "-" under Cells and a module whose file states
\* one has that number, 0 included; the "Reported Modules" total is the sum
\* of the cell counts of exactly the modules whose file exists and states one.
C23_MissingCellsIsNotZero ==
    \A doc \in DocumentsOf("generate_comprehensive_gate_report") :
        LET table == SummaryTable(doc)
        IN  /\ \A m \in DOMAIN SixModules :
                  \A k \in RowsOf(table, SixModules[m]) :
                      /\ (stats_files[m] # NoReport /\ m \notin ModulesWithCells)
                             => Cells(table[k]) = "-"
                      /\ m \in ModulesWithCells
                             => Cells(table[k]) = ToString(StatedCells(m))
            /\ RenderedTotal(doc)
                  = ToString(SumValues([m \in ModulesWithCells |->
                                           StatedCells(m)]))

\* a report of a project whose rescale_unit has a stats file without a cell
\* count, whose fft_control has 0 cells and whose fft_engine has 12
C23_Witness ==
    \E doc \in DocumentsOf("generate_comprehensive_gate_report") :
        LET table == SummaryTable(doc)
        IN  /\ stats_files["rescale_unit"] # NoReport
            /\ "rescale_unit" \notin ModulesWithCells
            /\ ModulesWithCells = {"fft_control", "fft_engine"}
            /\ \A k \in RowsOf(table, "Rescale Unit") : Cells(table[k]) = "-"
            /\ \A k \in RowsOf(table, "FFT Control") : Cells(table[k]) = "0"
            /\ \A k \in RowsOf(table, "FFT Engine") : Cells(table[k]) = "12"
            /\ RowsOf(table, "Rescale Unit") # {}
            /\ RenderedTotal(doc) = "12"

----------------------------------------------------------------------------
(* Claims about the numbers of the legacy report *)

\* int(s) for a number the legacy report shows
IntOf(s) ==
    CHOOSE n \in 0 .. MaxNetlistLines
                        * MaxOf({transistor_counts[g] : g \in GateType}) :
        ToString(n) = s

\* the rows of the table under the given head, none if it is not there
RowsUnder(doc, head) ==
    IF LinesOf(doc, <<head>>) = {} THEN <<>> ELSE TableRows(doc, head)

\* the sum of a column of numbers
RECURSIVE SumColumn(_, _)
SumColumn(rows, col) ==
    IF rows = <<>> THEN 0
    ELSE IntOf(Head(rows)[col]) + SumColumn(Tail(rows), col)

LegacySummaryRows(doc) ==
    RowsUnder(doc,
        "| Implementation | Primitive Gates | Transistors | Design Style |")

GateBreakdownRows(doc) == RowsUnder(doc, "| Gate Type | Count | Transistors |")

NumberAfter(doc, label) ==
    IntOf(doc[MinOf({k \in 1..Len(doc) : doc[k][1] = label})][2])

\* C30: in the Logic Complexity Analysis of the legacy report, the number of
\* Sequential Elements and the number of Combinational Logic gates add up
\* to the Primitive Gates of the Total Statistics, so that every counted
\* gate is either sequential or combinational.
C30_SequentialAndCombinationalPartition ==
    \A doc \in DocumentsOf("generate_gate_report") :
        LinesOf(doc, <<"### Logic Complexity Analysis">>) # {} =>
            NumberAfter(doc, "- **Sequential Elements**: ")
                + NumberAfter(doc, "- **Combinational Logic**: ")
              = NumberAfter(doc, "- **Primitive Gates**: ")

----------------------------------------------------------------------------
(* Claims about the cocotb helpers *)

\* wait_for_completion has returned normally only after a poll that read
\* FFT_DONE, one of the first timeout polls
ReturnedAfterDone ==
    outcome = "returned" =>
        /\ DoneBit(fft_status)
        /\ polls \in 1..timeout

\* wait_for_completion has raised only after timeout polls, none of which
\* read FFT_DONE
RaisedAfterTimeout ==
    outcome = "raised" =>
        /\ polls = timeout
        /\ polls > 0 => ~DoneBit(fft_status)

\* C25: every call of wait_for_completion(dut, timeout) ends, whatever the
\* dut drives: it returns normally only after a status poll that read the
\* FFT_DONE bit, within the first timeout polls, and raises otherwise after
\* timeout polls, never after a poll that read FFT_DONE.
C25_WaitForCompletionEnds ==
    /\ [](ReturnedAfterDone /\ RaisedAfterTimeout)
    /\ (call = "wait_for_completion") ~> (outcome \in {"returned", "raised"})

----------------------------------------------------------------------------
\* a transfer of apb_write or apb_read is in its setup or access phase
InTransfer == pc \in {"setup", "access", "wait"}

\* what one step of a helper does to the APB inputs
ApbPhaseStep ==
    \* the setup phase follows the first edge: psel_i = 1, penable_i = 0
    /\ pc' = "setup" => pc = "edge" /\ psel_i' = 1 /\ penable_i' = 0
    \* it lasts one edge, and the access phase follows it
    /\ pc = "setup" => pc' = "access"
    /\ pc' = "access" => pc = "setup" /\ psel_i' = 1 /\ penable_i' = 1
    \* the access phase lasts while pready_o is sampled as 0
    /\ pc' = "wait" =>
          /\ pc \in {"access", "wait"}
          /\ pready_o' = 0
          /\ psel_i' = 1 /\ penable_i' = 1
    \* the transfer ends from the access phase, with pready_o sampled as 1,
    \* and leaves the bus idle
    /\ (InTransfer /\ ~InTransfer') =>
          /\ pc \in {"access", "wait"}
          /\ pready_o' = 1
          /\ psel_i' = 0 /\ penable_i' = 0
    \* psel_i and penable_i change only as above
    /\ (~InTransfer /\ ~InTransfer') => UNCHANGED <<psel_i, penable_i>>
    \* penable_i = 1 with psel_i = 0 is never driven
    /\ InTransfer' \/ ~(penable_i' = 1 /\ psel_i' = 0) \/
          UNCHANGED <<psel_i, penable_i>>

\* C29: every transfer of apb_write and apb_read has a setup phase with
\* psel_i = 1 and penable_i = 0 that lasts one pclk edge, then an access
\* phase with penable_i = 1; psel_i and penable_i are deasserted only after
\* pready_o was sampled as 1; the helpers never drive penable_i = 1 with
\* psel_i = 0, and the bus is idle when the call returns.
C29_ApbPhaseOrder ==
    /\ [][ApbPhaseStep]_vars
    /\ [](pc = "setup" => psel_i = 1 /\ penable_i = 0)
    /\ [](pc \in {"access", "wait"} => psel_i = 1 /\ penable_i = 1)

\* the access phase of the second transfer is held because pready_o was
\* sampled as 0, after the first transfer returned
C29_Witness ==
    /\ calls = 2
    /\ call = "apb_write"
    /\ pc = "wait"
    /\ pready_o = 0
    /\ psel_i = 1 /\ penable_i = 1

----------------------------------------------------------------------------
(* Claims about the stages of run_all_tests *)

\* what each stage prints when it starts, in the order of the stages
StageStarts ==
    <<"Checking dependencies...", "Running verification tests...",
      "Running simulation tests...", "Running synthesis tests...",
      "Generating test report...">>

\* the stages started so far, in the order they were started
StagesStarted ==
    LET IsStart(entry) == \E i \in 1..Len(StageStarts) :
                              entry.format = StageStarts[i]
        starts == SelectSeq(log, IsStart)
    IN  [i \in 1..Len(starts) |-> starts[i].format]

Printed(format) == \E k \in 1..Len(log) : log[k].format = format

\* the i-th stage has run and passed
StagePassed(i) ==
    CASE i = 1 -> Printed("All dependencies available")
      [] i = 2 -> /\ Cardinality({k \in 1..Len(log) :
                         log[k].format = "{} verification passed"}) = 3
                  /\ ~Printed("{} verification failed")
      [] i = 3 -> /\ Cardinality({k \in 1..Len(log) :
                         log[k].format \in {"{} test passed",
                                            "Test file not found: {}"}}) = 2
                  /\ ~Printed("{} test failed")
      [] i = 4 -> /\ step >= Len(test_modules) + 2
                  /\ all_passed
                  /\ \A m \in DOMAIN yosys :
                        yosys[m] = [type |-> "exit", returncode |-> 0]

\* C26: run_all_tests starts its stages in the order dependency check,
\* verification tests, simulation tests, synthesis tests, report
\* generation, each at most once and each only after the stage before it
\* has passed; it returns False when the stage it started last has failed,
\* and it returns True exactly when the report has been generated after
\* the four stages before it had passed.
C26_StagesInOrderUntilFailure ==
    LET started == StagesStarted
    IN  /\ Len(started) <= Len(StageStarts)
        /\ \A i \in 1..Len(started) : started[i] = StageStarts[i]
        /\ \A i \in 2..Len(started) : StagePassed(i - 1)
        /\ success = False =>
              /\ stage = "returned"
              /\ Len(started) \in 1..4
              /\ ~StagePassed(Len(started))
        /\ test_report # NoReport => Len(started) = 5
        /\ success = True =>
              /\ stage = "returned"
              /\ test_report # NoReport
              /\ \A i \in 1..4 : StagePassed(i)
        /\ stage = "returned" => success \in {True, False}
        /\ (stage = "returned" /\ test_report # NoReport) => success = True

\* a run that a failed simulation test has stopped: the first two stages
\* passed, no synthesis was started and no report was generated
C26_Witness ==
    /\ success = False
    /\ Len(StagesStarted) = 3
    /\ StagePassed(1) /\ StagePassed(2) /\ ~StagePassed(3)
    /\ step = 0
    /\ test_report = NoReport

----------------------------------------------------------------------------
(* Claims about the outcome of the synthesis tests *)

\* Yosys ended the synthesis of the module with exit code 0
ExitedZero(module) == yosys[module] = [type |-> "exit", returncode |-> 0]

\* run_synthesis_tests has returned
SynthesisTestsReturned == step >= Len(SynthesisOrder) + 1

\* C27: run_synthesis_tests attempts the synthesis of every module of
\* test_modules and then of the comprehensive design, whether or not an
\* earlier one failed, and returns True exactly when every one of them
\* succeeded.
C27_NoShortCircuit ==
    /\ \A i \in 1..Len(SynthesisOrder) :
          SynthesisOrder[i] \in DOMAIN yosys <=> step > i
    /\ SynthesisTestsReturned =>
          /\ DOMAIN yosys = SynthesizedModules
          /\ all_passed <=> \A m \in SynthesizedModules : ExitedZero(m)

\* run_synthesis_tests has returned False after the first synthesis failed
\* and the three after it succeeded
C27_Witness ==
    /\ SynthesisTestsReturned
    /\ ~all_passed
    /\ ~ExitedZero(SynthesisOrder[1])
    /\ \A i \in 2..Len(SynthesisOrder) : ExitedZero(SynthesisOrder[i])

\* the positions of the log where run_synthesis_tests reports that the
\* synthesis of the module returned True (resp. False)
OutcomePrints(module, status, ofModule, ofComprehensive) ==
    {k \in 1..Len(log) :
        /\ log[k].status = status
        /\ log[k].format = IF module = "comprehensive"
                           THEN ofComprehensive ELSE ofModule
        /\ log[k].args = <<module>>}

ReturnedTrue(module) ==
    OutcomePrints(module, "SUCCESS", "{} synthesis completed",
                  "Comprehensive synthesis completed") # {}

ReturnedFalse(module) ==
    OutcomePrints(module, "ERROR", "{} synthesis failed",
                  "Comprehensive synthesis failed") # {}

\* C28: _run_module_synthesis and _run_comprehensive_synthesis return True
\* exactly when Yosys exits with code 0, whatever the evaluator printed
\* about the cell count and whether or not there was one; every verdict of
\* the evaluator is a SUCCESS or a WARNING print, and all_passed stays True
\* as long as every Yosys run exited with code 0.
C28_OutcomeIsExitCode ==
    /\ \A m \in SynthesizedModules :
          /\ ReturnedTrue(m) <=> (m \in DOMAIN yosys /\ ExitedZero(m))
          /\ ReturnedFalse(m) <=> (m \in DOMAIN yosys /\ ~ExitedZero(m))
    /\ \A k \in 1..Len(log) :
          log[k].format \in VerdictPrints =>
              log[k].status \in {"SUCCESS", "WARNING"}
    /\ step >= 1 => (all_passed <=> \A m \in DOMAIN yosys : ExitedZero(m))

\* a run in which every synthesis returned True although one module got a
\* not-improved verdict, one a success verdict and one had no data
C28_Witness ==
    /\ SynthesisTestsReturned
    /\ all_passed
    /\ \A m \in SynthesizedModules : ReturnedTrue(m)
    /\ \E k \in 1..Len(log) :
          /\ log[k].status = "WARNING"
          /\ log[k].format = NotImprovedPrint["memory_interface"]
    /\ \E k \in 1..Len(log) :
          /\ log[k].status = "SUCCESS"
          /\ log[k].format = SuccessPrint["twiddle_rom"]
    /\ NoDataAt("comprehensive") # {}

====
